---- MODULE Spec2Model ----
(***************************************************************************)
(* A model of the profanity-muting pipeline of AI-Word-Recognition:        *)
(* AudioProcessor (chunking, word timing), ProfanityDetector and           *)
(* EnhancedProfanityDetector (lexical, fuzzy, adaptive detection and       *)
(* confidence fusion) and the segment loops of VideoProfanityFilter and    *)
(* EnhancedVideoProfanityFilter.                                           *)
(*                                                                         *)
(* Times are integers in milliseconds (pydub's unit); a value the code     *)
(* computes by float division is an exact rational <<numerator,            *)
(* denominator>>.  Characters are one-element strings named in ASCII       *)
(* (the table is with the dictionaries below), texts are sequences of      *)
(* characters.                                                             *)
(***************************************************************************)
EXTENDS Integers, Sequences, FiniteSets, TLC

VARIABLES
    audio_len,          \* len(audio) of the extracted audio track, in ms
    ap_chunk_duration,  \* AudioProcessor.chunk_duration, in seconds
    detector,           \* the detector class in use (Basic or Enhanced)
    profanity_words,    \* detector.profanity_words: its keys, in order
    use_adaptive_detection,  \* detector.use_adaptive_detection
    adaptive_weight,    \* detector.adaptive_weight
    is_trained,         \* detector.adaptive_trainer.is_trained
    training_accuracy,  \* detector.adaptive_trainer.training_accuracy
    feature_scaler,     \* adaptive_trainer.feature_scaler: the data it is fitted on
    audio_classifier,   \* adaptive_trainer.audio_classifier
    threads,            \* the GUI's training and processing threads
    files,              \* the files of the working directory, with contents
    training_segments,  \* the training segments the caller holds
    vf_chunk_duration,  \* filter.chunk_duration, in seconds
    precise_muting,     \* filter.precise_muting
    mute_padding,       \* filter.mute_padding, in ms
    use_fuzzy_matching,     \* filter.use_fuzzy_matching
    use_overlap_segments,   \* filter.use_overlap_segments
    pc,                 \* where the pipeline run is: idle, loop, returned, raised
    chunks,             \* the windows of the run, as the chunker returned them
    chunk_index,        \* how many windows the loop has gone through
    profanity_segments, \* the run's list of mute segments, in list order
    input,              \* the arguments and collaborator answers of a call
    call,               \* the operation last called, with its arguments
    ret                 \* what that call returned

detectorVars == <<detector, profanity_words, use_adaptive_detection,
                  adaptive_weight, is_trained, training_accuracy>>

settingsVars == <<vf_chunk_duration, precise_muting, mute_padding,
                  use_fuzzy_matching, use_overlap_segments>>

runVars == <<pc, chunks, chunk_index, profanity_segments>>

filterVars == <<settingsVars, runVars>>

trainerVars == <<feature_scaler, audio_classifier>>

diskVars == <<files, training_segments>>

vars == <<audio_len, ap_chunk_duration, detectorVars, trainerVars, threads,
          diskVars, filterVars, input, call, ret>>

\* Python's None where a value is optional; a value x that is there is
\* Some(x)
None == <<>>

Some(x) == <<x>>

Range(s) == {s[i] : i \in DOMAIN s}

Min(a, b) == IF a <= b THEN a ELSE b

Max(a, b) == IF a >= b THEN a ELSE b

(***************************************************************************)
(* Exact rationals <<n, d>> with d > 0, in lowest terms, for the values    *)
(* the code holds in floats.                                               *)
(***************************************************************************)
RECURSIVE GCD(_, _)
GCD(a, b) == IF b = 0 THEN a ELSE GCD(b, a % b)

Abs(a) == IF a < 0 THEN -a ELSE a

Rat(n, d) ==
    LET g == GCD(Abs(n), Abs(d))
        sgn == IF d < 0 THEN -1 ELSE 1
    IN  IF g = 0 THEN <<0, 1>> ELSE <<sgn * (n \div g), sgn * (d \div g)>>

RatAdd(a, b) == Rat(a[1] * b[2] + b[1] * a[2], a[2] * b[2])

RatSub(a, b) == Rat(a[1] * b[2] - b[1] * a[2], a[2] * b[2])

RatMul(a, b) == Rat(a[1] * b[1], a[2] * b[2])

\* a / b for b # 0
RatDiv(a, b) == Rat(a[1] * b[2], a[2] * b[1])

RatLE(a, b) == a[1] * b[2] <= b[1] * a[2]

RatLT(a, b) == a[1] * b[2] < b[1] * a[2]

RatMin(a, b) == IF RatLE(a, b) THEN a ELSE b

RatMax(a, b) == IF RatLE(b, a) THEN a ELSE b

RECURSIVE RatSum(_)
RatSum(s) == IF s = <<>> THEN <<0, 1>> ELSE RatAdd(s[1], RatSum(Tail(s)))

RECURSIVE RatMaxOf(_)
RatMaxOf(s) ==
    IF Len(s) = 1 THEN s[1] ELSE RatMax(s[1], RatMaxOf(Tail(s)))

(***************************************************************************)
(* Bounds of the model.                                                    *)
(***************************************************************************)
GrainMs == 500          \* audio lengths are multiples of this many ms

MaxAudioGrains == 52    \* the longest audio track, in grains

MaxChunkSec == 3        \* the largest chunk / segment duration passed in

AudioLens == {k * GrainMs : k \in 0..MaxAudioGrains}

MaxTextPieces == 3      \* a text is at most this many pieces long

ProbScale == 5          \* classifier probabilities are k / ProbScale

AccScale == 4           \* training accuracies are k / AccScale

(***************************************************************************)
(* AudioProcessor: chunking                                                *)
(***************************************************************************)
DefaultChunkDuration == 10

DefaultSegmentDuration == 10

DefaultOverlapDuration == 2

\* Python's range(start, stop, step) for step > 0.
RECURSIVE PyRange(_, _, _)
PyRange(start, stop, step) ==
    IF start >= stop THEN <<>>
    ELSE <<start>> \o PyRange(start + step, stop, step)

ChunkEnd_NoClip(start_time, chunk_length_ms, total) ==
    start_time + chunk_length_ms

\* end_time = min(start_time + chunk_length_ms, len(audio))
ChunkEnd(start_time, chunk_length_ms, total) ==
    Min(start_time + chunk_length_ms, total)

\* A chunk tuple (chunk_path, start, end); start/1000.0 and end/1000.0 are
\* kept as the millisecond integers they are computed from.
Chunk(prefix, i, start_ms, end_ms) ==
    [path |-> <<prefix, i>>, start |-> start_ms, end |-> end_ms]

\* split_audio_chunks(audio_path, chunk_duration): range() raises ValueError
\* for a zero step, which the except branch turns into [].
split_audio_chunks(total, chunk_duration_arg, self_chunk_duration) ==
    LET chunk_duration == IF chunk_duration_arg = None
                          THEN self_chunk_duration ELSE chunk_duration_arg[1]
        chunk_length_ms == chunk_duration * 1000
        starts == IF chunk_length_ms > 0
                  THEN PyRange(0, total, chunk_length_ms) ELSE <<>>
    IN  [i \in 1..Len(starts) |->
            Chunk("temp_chunk_", i - 1, starts[i],
                  ChunkEnd(starts[i], chunk_length_ms, total))]

StepLength_NoOverlap(segment_length_ms, overlap_length_ms) ==
    segment_length_ms

\* step_length_ms = segment_length_ms - overlap_length_ms
StepLength(segment_length_ms, overlap_length_ms) ==
    segment_length_ms - overlap_length_ms

\* what the try block of split_audio_with_overlap meets: range() raises
\* ValueError for a zero step; a negative step is an empty range, no error
OverlapTryException(segment_duration, overlap_duration) ==
    IF StepLength(segment_duration * 1000, overlap_duration * 1000) = 0
    THEN "ValueError" ELSE ""

\* `except Exception as e:` prints and returns []: whatever the try block
\* met, no exception leaves the method
Caught(exception) == ""

\* split_audio_with_overlap(audio_path, segment_duration, overlap_duration):
\* a zero step raises ValueError (caught: []), a negative one gives an empty
\* range.
split_audio_with_overlap(total, segment_duration, overlap_duration) ==
    LET segment_length_ms == segment_duration * 1000
        overlap_length_ms == overlap_duration * 1000
        step_length_ms == StepLength(segment_length_ms, overlap_length_ms)
        starts == IF step_length_ms > 0
                  THEN PyRange(0, total, step_length_ms) ELSE <<>>
    IN  [i \in 1..Len(starts) |->
            Chunk("temp_segment_", i - 1, starts[i],
                  Min(starts[i] + segment_length_ms, total))]

(***************************************************************************)
(* Texts.  A character is a string naming it, a text a sequence of         *)
(* characters:                                                             *)
(*   gan4 幹  gan1 甘  gan1b 干  gan1c 乾  ni3 你  ni2 泥  ni3b 妳  ni2b 尼 *)
(*   niang2 娘  liang2 涼  liang2b 良  liang2c 梁  cao1 操  cao3 草        *)
(*   cao2 曹  ma1 媽  ma3 馬  ma2 麻  mu3 母  ma5 嗎  lao3 老  shi1 師     *)
(*   kao4 靠  kao3 考  kao3b 烤  bei3 北  bei1 杯  bei4 背  bei1b 悲       *)
(*   chong4 衝  san1 三  xiao3 小  lin2 霖  li5 哩  quan2 全  jia1 家      *)
(*   bai2 白  chi1 痴  zhi4 智  zhang4 障  ji1 機  bai1 掰  de5 的  bi1 逼 *)
(*   hao3 好  wo3 我  shi4 是  jie3 姐  la 啦                              *)
(*   G o g l e c a b i: the Latin letters; comma "，"; sp " "; nl "\n".    *)
(***************************************************************************)
\* str.lower() on one character: only the Latin capitals have a lower case
LowerChar(c) ==
    CASE c = "G" -> "g"
      [] c = "C" -> "c"
      [] c = "B" -> "b"
      [] OTHER -> c

LowerChar_Identity(c) == c

\* text.lower()
Lower(text) == [i \in 1..Len(text) |-> LowerChar(text[i])]

\* text[i:j] for 1 <= i, j <= Len(text) + 1 (1-based, j exclusive)
Slice(text, i, j) == [k \in 1..(j - i) |-> text[i + k - 1]]

\* text.find(target, start_pos) with 0-based positions; -1 when absent
RECURSIVE Find(_, _, _)
Find(text, target, start_pos) ==
    IF start_pos + Len(target) > Len(text) THEN -1
    ELSE IF Slice(text, start_pos + 1, start_pos + 1 + Len(target)) = target
         THEN start_pos
         ELSE Find(text, target, start_pos + 1)

\* Python's `target in text`
Contains(text, target) == Find(text, target, 0) # -1

Punctuation == {"comma", "bang"}

Whitespace == {"sp", "nl"}

\* re.sub(r'[^\w\s]', '', text): every character that is neither a word
\* character nor white space is dropped
StripPunctuation(text) ==
    SelectSeq(text, LAMBDA c : c \notin Punctuation)

StripPunctuation_Keep(text) == text

(***************************************************************************)
(* Regular expressions of the fuzzy patterns: a pattern is a sequence of   *)
(* elements, each a character class (a set of characters) or ".*".         *)
(***************************************************************************)
DotStar == [kind |-> "dotstar"]

Cls(S) == [kind |-> "class", chars |-> S]

Lit(c) == Cls({c})

\* whether pattern p from element k on matches text t starting at 1-based
\* position i ("." matches every character but a newline)
RECURSIVE MatchAt(_, _, _, _)
MatchAt(p, k, t, i) ==
    IF k > Len(p) THEN TRUE
    ELSE IF p[k].kind = "dotstar"
         THEN \E j \in i..(Len(t) + 1) :
                 /\ \A m \in i..(j - 1) : t[m] # "nl"
                 /\ MatchAt(p, k + 1, t, j)
         ELSE /\ i <= Len(t)
              /\ t[i] \in p[k].chars
              /\ MatchAt(p, k + 1, t, i + 1)

\* re.search(pattern, text) is not None
ReSearch(p, t) == \E i \in 1..(Len(t) + 1) : MatchAt(p, 1, t, i)

(***************************************************************************)
(* ProfanityDetector and EnhancedProfanityDetector                         *)
(***************************************************************************)
Basic == "ProfanityDetector"

Enhanced == "EnhancedProfanityDetector"

DetectorKinds == {Basic, Enhanced}

\* the Test entry of both dictionaries, with its capital G
GoogleTerm == <<"ni3", "hao3", "wo3", "shi4", "G", "o", "o", "g", "l", "e", "xiao3", "jie3">>

\* ProfanityDetector.profanity_words: the keys, in insertion order
BasicProfanityWords == <<
        <<"gan4">>,
        <<"gan1">>,
        <<"gan1b">>,
        <<"gan4", "ni3">>,
        <<"cao1", "ni3">>,
        <<"kao4", "bei3">>,
        <<"gan4", "ni3", "niang2">>,
        <<"cao1", "ni3", "ma1">>,
        <<"chong4", "san1", "xiao3">>,
        <<"gan1", "lin2", "niang2">>,
        <<"gan4", "li5", "niang2">>,
        <<"gan4", "li5", "liang2">>,
        <<"gan4", "ni2b", "niang2">>,
        <<"gan4", "ni3", "liang2">>,
        <<"gan4", "ni3", "lao3", "shi1">>,
        <<"cao1", "ni3", "quan2", "jia1">>,
        <<"gan4", "ni3", "lao3", "mu3">>,
        <<"bai2", "chi1", "zhi4", "zhang4">>,
        <<"gan4", "ni3", "niang2", "ji1", "bai1">>,
        <<"cao1", "ni3", "ma1", "de5", "bi1">>,
        <<"ni3", "hao3", "wo3", "shi4", "G", "o", "o", "g", "l", "e", "xiao3", "jie3">> >>

\* EnhancedProfanityDetector.profanity_words
EnhancedProfanityWords == <<
        <<"gan4">>,
        <<"gan1">>,
        <<"gan1b">>,
        <<"gan4", "ni3">>,
        <<"cao1", "ni3">>,
        <<"kao4", "bei3">>,
        <<"gan4", "ni3", "niang2">>,
        <<"cao1", "ni3", "ma1">>,
        <<"chong4", "san1", "xiao3">>,
        <<"gan1", "lin2", "niang2">>,
        <<"gan4", "li5", "niang2">>,
        <<"gan4", "ni3", "lao3", "shi1">>,
        <<"cao1", "ni3", "quan2", "jia1">>,
        <<"ni3", "hao3", "wo3", "shi4", "G", "o", "o", "g", "l", "e", "xiao3", "jie3">> >>

InitialProfanityWords(kind) ==
    IF kind = Basic THEN BasicProfanityWords ELSE EnhancedProfanityWords

\* ProfanityDetector.profanity_patterns, in insertion order
BasicProfanityPatterns == <<
        [term |-> <<"gan4", "ni3", "niang2">>,
         patterns |-> <<
                 <<Lit("gan4"), DotStar, Lit("ni3"), DotStar, Lit("niang2")>>,
                 <<Lit("gan4"), DotStar, Lit("niang2")>>,
                 <<Lit("gan1b"), DotStar, Lit("ni3"), DotStar, Lit("niang2")>>,
                 <<Lit("gan1c"), DotStar, Lit("ni3"), DotStar, Lit("niang2")>>,
                 <<Lit("gan4"), DotStar, Lit("ni2"), DotStar, Lit("niang2")>>,
                 <<Lit("gan4"), DotStar, Lit("ni3b"), DotStar, Lit("niang2")>> >>],
        [term |-> <<"cao1", "ni3", "ma1">>,
         patterns |-> <<
                 <<Lit("cao1"), DotStar, Lit("ni3"), DotStar, Lit("ma1")>>,
                 <<Lit("cao1"), DotStar, Lit("ni3b"), DotStar, Lit("ma1")>>,
                 <<Lit("cao3"), DotStar, Lit("ni3"), DotStar, Lit("ma1")>>,
                 <<Lit("cao1"), DotStar, Lit("ni3"), DotStar, Lit("ma3")>>,
                 <<Lit("cao1"), DotStar, Lit("ma1")>>,
                 <<Lit("cao1"), DotStar, Lit("ni3"), DotStar, Lit("mu3")>> >>],
        [term |-> <<"gan4", "ni3", "lao3", "shi1">>,
         patterns |-> <<
                 <<Lit("gan4"), DotStar, Lit("ni3"), DotStar, Lit("lao3"), DotStar, Lit("shi1")>>,
                 <<Lit("gan4"), DotStar, Lit("lao3"), DotStar, Lit("shi1")>>,
                 <<Lit("gan1c"), DotStar, Lit("ni3"), DotStar, Lit("lao3"), DotStar, Lit("shi1")>>,
                 <<Lit("gan4"), DotStar, Lit("ni2"), DotStar, Lit("lao3"), DotStar, Lit("shi1")>> >>],
        [term |-> <<"kao4", "bei3">>,
         patterns |-> <<
                 <<Lit("kao4"), DotStar, Lit("bei3")>>,
                 <<Lit("kao3"), DotStar, Lit("bei3")>>,
                 <<Lit("kao4"), DotStar, Lit("bei1")>>,
                 <<Lit("c"), Lit("a"), Lit("o"), DotStar, Lit("b"), Lit("e"), Lit("i")>> >>] >>

\* EnhancedProfanityDetector.profanity_patterns
EnhancedProfanityPatterns == <<
        [term |-> <<"gan4", "ni3", "niang2">>,
         patterns |-> <<
                 <<Cls({"gan4", "gan1b", "gan1c", "gan1"}), Cls({"ni3", "ni2", "ni3b", "ni2b"}), Cls({"niang2", "liang2", "liang2b", "liang2c"})>> >>],
        [term |-> <<"cao1", "ni3", "ma1">>,
         patterns |-> <<
                 <<Cls({"cao1", "cao3", "cao2"}), Cls({"ni3", "ni2", "ni3b", "ni2b"}), Cls({"ma1", "ma3", "ma2", "mu3", "ma5"})>> >>],
        [term |-> <<"gan4", "ni3", "lao3", "shi1">>,
         patterns |-> <<
                 <<Cls({"gan4", "gan1b", "gan1c", "gan1"}), Cls({"ni3", "ni2", "ni3b", "ni2b"}), Cls({"lao3"}), Cls({"shi1"})>> >>],
        [term |-> <<"kao4", "bei3">>,
         patterns |-> <<
                 <<Cls({"kao4", "kao3", "kao3b"}), Cls({"bei3", "bei1", "bei4", "bei1b"})>> >>] >>

profanity_patterns(kind) ==
    IF kind = Basic THEN BasicProfanityPatterns ELSE EnhancedProfanityPatterns

\* adaptive_weight as the constructors set it
InitialAdaptiveWeight(kind) == IF kind = Basic THEN <<7, 10>> ELSE <<3, 10>>

\* no thread of the GUI is running
ThreadsIdle == [train |-> [pc |-> "idle"], score |-> [pc |-> "idle"]]

(***************************************************************************)
(* The working directory: files is the set of its files, each a path and   *)
(* what the file holds.  The audio track extracted from the video          *)
(* (<video>_audio.wav) is not followed.                                    *)
(***************************************************************************)
\* the working directory before anything is written to it
NoFiles ==
    /\ files = {}
    /\ training_segments = <<>>

\* os.path.exists(path)
FileExists(fs, path) == \E f \in fs : f.path = path

\* what the file at path holds, None when there is no such file
FileContent(fs, path) ==
    IF FileExists(fs, path)
    THEN Some((CHOOSE f \in fs : f.path = path).content) ELSE None

\* a file written anew replaces the file of that name
WriteFile(fs, path, content) ==
    {f \in fs : f.path # path} \cup {[path |-> path, content |-> content]}

\* os.remove(path) inside try/except: no file, no effect
RemoveFile(fs, path) == {f \in fs : f.path # path}

\* what chunk.export writes for a window: that stretch of the track
ChunkAudio(chunk) == [kind |-> "wav", start |-> chunk.start, end |-> chunk.end]

\* the chunk files split_audio_chunks / split_audio_with_overlap export,
\* one per window of the list they return
ExportChunks(fs, chunk_list) ==
    {f \in fs : \A i \in DOMAIN chunk_list : f.path # chunk_list[i].path}
    \cup {[path |-> chunk_list[i].path, content |-> ChunkAudio(chunk_list[i])] :
            i \in DOMAIN chunk_list}

cleanup_temp_files_KeepChunks(fs) ==
    {f \in fs : f.path[1] \in {"temp_chunk_"}}

\* cleanup_temp_files(): every file named temp_*.wav or temp_*.mp4 goes
cleanup_temp_files(fs) ==
    {f \in fs : f.path[1] \notin {"temp_chunk_", "temp_segment_"}}

\* AdaptiveTrainingModule.__init__, as far as the model files go: a
\* StandardScaler not fitted (None), no classifier (None); and no thread
TrainerConstructed ==
    /\ feature_scaler = None
    /\ audio_classifier = None
    /\ threads = ThreadsIdle

\* the detector as __init__ leaves it
DetectorConstructed(kind) ==
    /\ detector = kind
    /\ profanity_words = InitialProfanityWords(kind)
    /\ use_adaptive_detection = FALSE
    /\ adaptive_weight = InitialAdaptiveWeight(kind)
    /\ is_trained = FALSE
    /\ training_accuracy = <<0, 1>>

\* detect_profanity_basic(text): the dictionary keys found in text.lower()
detect_profanity_basic(text) ==
    LET text_lower == Lower(text)
    IN  SelectSeq(profanity_words, LAMBDA profanity : Contains(text_lower, profanity))

\* the loop of detect_profanity_fuzzy: a term is appended at its first
\* matching pattern (break), so once
FuzzyFound(text) ==
    LET text_clean == StripPunctuation(Lower(text))
        hit(entry) == \E k \in 1..Len(entry.patterns) :
                          ReSearch(entry.patterns[k], text_clean)
        hits == SelectSeq(profanity_patterns(detector), hit)
    IN  [i \in 1..Len(hits) |-> hits[i].term]

\* detect_profanity_fuzzy(text): ProfanityDetector ends in a bare `return`
\* (None), EnhancedProfanityDetector returns found_profanity
detect_profanity_fuzzy(text) ==
    IF detector = Basic THEN None ELSE Some(FuzzyFound(text))

\* Python truth of a value that is None or a list
Truthy(opt) == opt # None /\ opt[1] # <<>>

\* AdaptiveTrainingModule.predict_profanity_probability: outcome is what
\* feature extraction and the classifier give for the audio file, None when
\* they raise
predict_profanity_probability(outcome) ==
    IF ~is_trained THEN <<0, 1>>
    ELSE IF outcome = None THEN <<0, 1>>
    ELSE outcome[1]

IsAdaptiveHit_AtLeast(probability) ==
    RatLE(<<7, 10>>, probability) \/ RatLE(<<4, 10>>, probability)

\* probability > 0.7 (high) or probability > 0.4 (medium)
IsAdaptiveHit(probability) ==
    RatLT(<<7, 10>>, probability) \/ RatLT(<<4, 10>>, probability)

detect_profanity_adaptive_Unguarded(outcome) ==
    LET probability == predict_profanity_probability(outcome)
    IN  [detected |-> IF IsAdaptiveHit(probability)
                      THEN <<"adaptive_detection">> ELSE <<>>,
         probability |-> probability]

\* detect_profanity_adaptive(audio_segment_path)
detect_profanity_adaptive(outcome) ==
    IF ~use_adaptive_detection \/ ~is_trained
    THEN [detected |-> <<>>, probability |-> <<0, 1>>]
    ELSE LET probability == predict_profanity_probability(outcome)
         IN  [detected |-> IF IsAdaptiveHit(probability)
                           THEN <<"adaptive_detection">> ELSE <<>>,
              probability |-> probability]

\* the marker detect_profanity puts in all_detections for an adaptive hit
\* ('訓練模型檢測')
AdaptiveMarker == <<"xun4", "lian4", "mo2", "xing2", "jian3", "ce4">>

\* confidence_scores.append(0.8) / .append(0.6)
BasicTextConfidence == <<8, 10>>

FuzzyTextConfidence == <<6, 10>>

AdjustedConfidence_Sum(adaptive_prob, accuracy) ==
    RatAdd(adaptive_prob, accuracy)

\* adjusted_confidence = adaptive_prob * training_accuracy
AdjustedConfidence(adaptive_prob, accuracy) ==
    RatMul(adaptive_prob, accuracy)

WeightOf_Swapped(method) ==
    IF method = "adaptive_audio"
    THEN RatSub(<<1, 1>>, adaptive_weight) ELSE adaptive_weight

\* weights.append(self.adaptive_weight) if 'adaptive' in method, else
\* weights.append(1 - self.adaptive_weight)
WeightOf(method) ==
    IF method = "adaptive_audio"
    THEN adaptive_weight ELSE RatSub(<<1, 1>>, adaptive_weight)

\* 'adaptive_probability' as detection_results starts with it
InitialAdaptiveProbability == IF detector = Basic THEN <<3, 4>> ELSE <<0, 1>>

\* the fused confidence of lines "if confidence_scores:" on: the weighted
\* average, max() when the lists differ in length; sum(weights) = 0 raises
\* ZeroDivisionError
FuseConfidence(methods_used, confidence_scores) ==
    LET weights == [i \in 1..Len(methods_used) |-> WeightOf(methods_used[i])]
        total == RatSum(weights)
        weighted == [i \in 1..Len(weights) |->
                        RatMul(weights[i], confidence_scores[i])]
    IN  IF Len(weights) = Len(confidence_scores)
        THEN IF total[1] = 0
             THEN [error |-> "ZeroDivisionError", confidence |-> <<0, 1>>]
             ELSE [error |-> "", confidence |-> RatDiv(RatSum(weighted), total)]
        ELSE [error |-> "", confidence |-> RatMaxOf(confidence_scores)]

\* detect_profanity(text, audio_segment_path, use_fuzzy).  audio_exists is
\* `audio_segment_path and os.path.exists(audio_segment_path)`, outcome what
\* the classifier gives for that file.  found_profanity is
\* list(set(all_detections)), a list in no particular order: it is kept as
\* the set, and who iterates over it chooses the order.
detect_profanity(text, audio_exists, use_fuzzy, outcome) ==
    LET basic_results == IF text # <<>> THEN detect_profanity_basic(text)
                         ELSE <<>>
        basic_hit == basic_results # <<>>
        fuzzy_results == IF text # <<>> /\ use_fuzzy
                         THEN detect_profanity_fuzzy(text) ELSE None
        fuzzy_hit == Truthy(fuzzy_results)
        adaptive == IF audio_exists THEN detect_profanity_adaptive(outcome)
                    ELSE [detected |-> <<>>,
                          probability |-> InitialAdaptiveProbability]
        adaptive_hit == adaptive.detected # <<>>
        all_detections ==
            (IF basic_hit THEN basic_results ELSE <<>>)
            \o (IF fuzzy_hit THEN fuzzy_results[1] ELSE <<>>)
            \o (IF adaptive_hit THEN <<AdaptiveMarker>> ELSE <<>>)
        confidence_scores ==
            (IF basic_hit THEN <<BasicTextConfidence>> ELSE <<>>)
            \o (IF fuzzy_hit THEN <<FuzzyTextConfidence>> ELSE <<>>)
            \o (IF adaptive_hit
                THEN <<AdjustedConfidence(adaptive.probability, training_accuracy)>>
                ELSE <<>>)
        methods_used ==
            (IF basic_hit THEN <<"basic_text">> ELSE <<>>)
            \o (IF fuzzy_hit THEN <<"fuzzy_text">> ELSE <<>>)
            \o (IF adaptive_hit THEN <<"adaptive_audio">> ELSE <<>>)
        fused == IF all_detections # <<>> /\ confidence_scores # <<>>
                 THEN FuseConfidence(methods_used, confidence_scores)
                 ELSE [error |-> "", confidence |-> <<0, 1>>]
    IN  [found_profanity |-> Range(all_detections),
         confidence |-> fused.confidence,
         methods_used |-> methods_used,
         adaptive_probability |-> adaptive.probability,
         error |-> fused.error]

(***************************************************************************)
(* AudioProcessor: word timing                                             *)
(***************************************************************************)
EstimatedDuration_Strict(word_length) ==
    IF word_length < 2 THEN 600
    ELSE IF word_length < 4 THEN 1200
    ELSE 1800

\* estimated_duration, in ms: 0.6 s up to 2 characters, 1.2 s up to 4,
\* 1.8 s beyond
EstimatedDuration(word_length) ==
    IF word_length <= 2 THEN 600
    ELSE IF word_length <= 4 THEN 1200
    ELSE 1800

RelativeEnd_NoClip(relative_start, estimated_duration, segment_duration) ==
    RatAdd(relative_start, <<estimated_duration, 1>>)

\* relative_end = min(relative_start + estimated_duration, segment_duration)
RelativeEnd(relative_start, estimated_duration, segment_duration) ==
    RatMin(RatAdd(relative_start, <<estimated_duration, 1>>),
           <<segment_duration, 1>>)

\* the while loop of find_word_timing_in_segment from start_pos on; the
\* times are rationals in ms
NextStartPos_PastMatch(pos, target_lower) == pos + Max(1, Len(target_lower))

\* start_pos = pos + 1
NextStartPos(pos, target_lower) == pos + 1

RECURSIVE WordTimingsFrom(_, _, _, _, _, _)
WordTimingsFrom(text_lower, target_lower, start_pos, segment_duration, estimated_duration, segment_start_time) ==
    LET pos == Find(text_lower, target_lower, start_pos)
        total_chars == Len(text_lower)
        relative_start == Rat(pos * segment_duration, total_chars)
        relative_end == RelativeEnd(relative_start, estimated_duration,
                                    segment_duration)
        absolute_start == RatAdd(<<segment_start_time, 1>>, relative_start)
        absolute_end == RatAdd(<<segment_start_time, 1>>, relative_end)
    IN  IF pos = -1 THEN <<>>
        ELSE <<<<absolute_start, absolute_end>>>>
             \o WordTimingsFrom(text_lower, target_lower,
                                NextStartPos(pos, target_lower),
                                segment_duration, estimated_duration,
                                segment_start_time)

\* find_word_timing_in_segment(audio_segment_path, text, target_word,
\* segment_start_time); segment_duration is len(audio) of the chunk file in
\* ms, None when the file cannot be read.  An exception (no file, or 0 / 0
\* for an empty target in an empty text) gives [].
find_word_timing_in_segment(segment_duration, text, target_word, segment_start_time) ==
    IF segment_duration = None THEN <<>>
    ELSE IF text = <<>> /\ target_word = <<>> THEN <<>>
    ELSE WordTimingsFrom(Lower(text), Lower(target_word), 0,
                         segment_duration[1],
                         EstimatedDuration(Len(target_word)),
                         segment_start_time)

(***************************************************************************)
(* VideoProfanityFilter / EnhancedVideoProfanityFilter                     *)
(***************************************************************************)
\* self.mute_padding = 0.5, in ms
DefaultMutePadding == 500

\* the filter as __init__ leaves it, around a detector of the given kind:
\* VideoProfanityFilter (ProfanityDetector) starts with overlapping windows,
\* EnhancedVideoProfanityFilter (EnhancedProfanityDetector) with fixed ones
FilterConstructed(kind) ==
    /\ vf_chunk_duration = DefaultChunkDuration
    /\ precise_muting = FALSE
    /\ mute_padding = DefaultMutePadding
    /\ use_fuzzy_matching = TRUE
    /\ use_overlap_segments = (kind = Basic)
    /\ pc = "idle"
    /\ chunks = <<>>
    /\ chunk_index = 0
    /\ profanity_segments = <<>>

BufferSegment_NoClip(start_time, end_time, precise_start, precise_end, padding) ==
    << RatSub(precise_start, <<padding, 1>>),
       RatAdd(precise_end, <<padding, 1>>) >>

\* buffered_start = max(start_time, precise_start - mute_padding) and
\* buffered_end = min(end_time, precise_end + mute_padding)
BufferSegment(start_time, end_time, precise_start, precise_end, padding) ==
    << RatMax(<<start_time, 1>>, RatSub(precise_start, <<padding, 1>>)),
       RatMin(<<end_time, 1>>, RatAdd(precise_end, <<padding, 1>>)) >>

Segment_FullConfidence(start, end, text, profanity, detection_result) ==
    [start_time |-> start, end_time |-> end, text |-> text,
     profanity |-> profanity, duration |-> RatSub(end, start),
     confidence |-> <<1, 1>>, methods |-> detection_result.methods_used]

\* the dict appended to profanity_segments
Segment(start, end, text, profanity, detection_result) ==
    [start_time |-> start, end_time |-> end, text |-> text,
     profanity |-> profanity, duration |-> RatSub(end, start),
     confidence |-> detection_result.confidence,
     methods |-> detection_result.methods_used]

PreciseSegments_Whole(chunk, text, found_profanity, detection_result) ==
    << Segment(<<chunk.start, 1>>, <<chunk.end, 1>>, text, found_profanity,
               detection_result) >>

\* precise muting: for each word of found_profanity, in the list's order,
\* except the adaptive marker, one segment per timing of the word
RECURSIVE PreciseSegments(_, _, _, _)
PreciseSegments(chunk, text, found_profanity, detection_result) ==
    IF found_profanity = <<>> THEN <<>>
    ELSE LET word == Head(found_profanity)
             word_timings ==
                 IF word # AdaptiveMarker
                 THEN find_word_timing_in_segment(
                          Some(chunk.end - chunk.start), text, word,
                          chunk.start)
                 ELSE <<>>
             buffered(k) == BufferSegment(chunk.start, chunk.end,
                                          word_timings[k][1],
                                          word_timings[k][2], mute_padding)
         IN  [k \in 1..Len(word_timings) |->
                 Segment(buffered(k)[1], buffered(k)[2], word, <<word>>,
                         detection_result)]
             \o PreciseSegments(chunk, text, Tail(found_profanity),
                                detection_result)

WholeSegment_StartOnly(chunk, text, found_profanity, detection_result) ==
    Segment(<<chunk.start, 1>>, <<chunk.start, 1>>, text, found_profanity,
            detection_result)

\* whole-window muting: the window itself
WholeSegment(chunk, text, found_profanity, detection_result) ==
    Segment(<<chunk.start, 1>>, <<chunk.end, 1>>, text, found_profanity,
            detection_result)

ExtendSegments_Replace(segments, new_segments) == new_segments

\* profanity_segments.append(...) for each new segment: the list so far is
\* kept and the new segments follow it
ExtendSegments(segments, new_segments) == segments \o new_segments

\* the lists list(set(all_detections)) can be: the set in any order
Orderings(S) ==
    {order \in [1..Cardinality(S) -> S] :
        \A j, k \in 1..Cardinality(S) : order[j] = order[k] => j = k}

\* check_segment_quality's first test: len(audio) < 2000 fails
MinQualityMs == 2000

----------------------------------------------------------------------------
(***************************************************************************)
(* SpecChunk: the chunker called on an audio track of any length.          *)
(***************************************************************************)
InitChunk ==
    /\ audio_len \in AudioLens
    /\ ap_chunk_duration = DefaultChunkDuration
    /\ DetectorConstructed(Basic)
    /\ input = <<>>
    /\ FilterConstructed(detector)
    /\ TrainerConstructed
    /\ NoFiles
    /\ call = [op |-> "init"]
    /\ ret = <<>>

\* configure_settings(chunk_duration = cd), as far as the chunker sees it
ConfigureChunkDuration ==
    \E cd \in 1..MaxChunkSec :
        /\ ap_chunk_duration' = cd
        /\ call' = [op |-> "configure_settings", chunk_duration |-> cd]
        /\ ret' = <<>>
        /\ UNCHANGED <<filterVars, threads, diskVars, trainerVars, audio_len,
                       detectorVars, input>>

SplitAudioChunks ==
    \E cd \in {None} \cup {<<d>> : d \in 0..MaxChunkSec} :
        /\ call' = [op |-> "split_audio_chunks", chunk_duration |->
                        IF cd = None THEN ap_chunk_duration ELSE cd[1]]
        /\ ret' = split_audio_chunks(audio_len, cd, ap_chunk_duration)
        /\ UNCHANGED <<filterVars, threads, diskVars, trainerVars, audio_len,
                       ap_chunk_duration, detectorVars, input>>

SplitAudioWithOverlap ==
    \E sd \in (1..MaxChunkSec) \cup {DefaultSegmentDuration},
       od \in 0..MaxChunkSec :
        /\ call' = [op |-> "split_audio_with_overlap",
                    segment_duration |-> sd, overlap_duration |-> od,
                    raised |-> Caught(OverlapTryException(sd, od))]
        /\ ret' = split_audio_with_overlap(audio_len, sd, od)
        /\ UNCHANGED <<filterVars, threads, diskVars, trainerVars, audio_len,
                       ap_chunk_duration, detectorVars, input>>

NextChunk ==
    \/ ConfigureChunkDuration
    \/ SplitAudioChunks
    \/ SplitAudioWithOverlap

SpecChunk == InitChunk /\ [][NextChunk]_vars

----------------------------------------------------------------------------
\* C1: for every audio length > 0 and chunk_duration > 0 the windows of
\* split_audio_chunks start at 0, each starts where the previous one ends,
\* none is empty, the last one ends at the end of the audio (so they cover
\* [0, total) exactly once) and the last window is at most chunk_duration
\* long.
C1_FixedChunksPartition ==
    (call.op = "split_audio_chunks" /\ call.chunk_duration > 0 /\ audio_len > 0)
    => /\ Len(ret) >= 1
       /\ ret[1].start = 0
       /\ \A i \in 1..Len(ret) : ret[i].start < ret[i].end
       /\ \A i \in 1..(Len(ret) - 1) : ret[i + 1].start = ret[i].end
       /\ ret[Len(ret)].end = audio_len
       /\ ret[Len(ret)].end - ret[Len(ret)].start <= call.chunk_duration * 1000

\* a run of fixed chunking that ends in a truncated last window after at
\* least two full ones
C1_Witness ==
    /\ call.op = "split_audio_chunks"
    /\ call.chunk_duration > 0
    /\ Len(ret) >= 3
    /\ ret[Len(ret)].end - ret[Len(ret)].start < call.chunk_duration * 1000

\* C2 (as stated): after split_audio_with_overlap with 0 <= overlap <
\* segment duration, successive starts differ by exactly step = duration -
\* overlap and every two consecutive windows share exactly overlap seconds.
C2_OverlapExactlyShared ==
    (call.op = "split_audio_with_overlap"
        /\ call.overlap_duration < call.segment_duration)
    => \A i \in 1..(Len(ret) - 1) :
          /\ ret[i + 1].start - ret[i].start
                = (call.segment_duration - call.overlap_duration) * 1000
          /\ ret[i].end - ret[i + 1].start = call.overlap_duration * 1000

\* C2 (amended): successive starts differ by exactly step, and two
\* consecutive windows share min(overlap, total - start of the later one):
\* exactly overlap seconds unless the earlier window is truncated by the end
\* of the audio, and then what is left of the audio after the later start.
C2_OverlapSharedUnlessTruncated ==
    (call.op = "split_audio_with_overlap"
        /\ call.overlap_duration < call.segment_duration)
    => \A i \in 1..(Len(ret) - 1) :
          /\ ret[i + 1].start - ret[i].start
                = (call.segment_duration - call.overlap_duration) * 1000
          /\ ret[i].end - ret[i + 1].start
                = Min(call.overlap_duration * 1000, audio_len - ret[i + 1].start)
          /\ (ret[i].end = ret[i].start + call.segment_duration * 1000
                => ret[i].end - ret[i + 1].start = call.overlap_duration * 1000)

\* overlap chunking with a real overlap whose last two windows are both cut
\* by the end of the audio, after a full pair
C2_Witness ==
    /\ call.op = "split_audio_with_overlap"
    /\ 0 < call.overlap_duration
    /\ call.overlap_duration < call.segment_duration
    /\ Len(ret) >= 3
    /\ ret[1].end - ret[2].start = call.overlap_duration * 1000
    /\ ret[Len(ret) - 1].end - ret[Len(ret)].start < call.overlap_duration * 1000

\* the speech intervals [a, b) of the track, on the grid of GrainMs, that
\* cross a boundary k * W of fixed chunking with windows of W seconds
CrossingIntervals(total, W) ==
    {ab \in {k * GrainMs : k \in 0..(total \div GrainMs)}
            \X {k * GrainMs : k \in 0..(total \div GrainMs)} :
        /\ ab[1] < ab[2]
        /\ \E k \in 1..(total \div (W * 1000)) :
              ab[1] < k * W * 1000 /\ k * W * 1000 < ab[2]}

\* some window of the list contains [a, b) entirely
ContainedInAWindow(windows, a, b) ==
    \E i \in 1..Len(windows) : windows[i].start <= a /\ b <= windows[i].end

\* C12 (as stated): for 0 < O < W, every speech interval inside the track
\* that crosses a fixed-mode boundary k * W lies entirely in at least one
\* window of overlap chunking.
C12_CrossingIntervalInSomeWindow ==
    (call.op = "split_audio_with_overlap" /\ 0 < call.overlap_duration
        /\ call.overlap_duration < call.segment_duration)
    => \A ab \in CrossingIntervals(audio_len, call.segment_duration) :
          ContainedInAWindow(ret, ab[1], ab[2])

\* C12 (amended): for 0 < O < W, every speech interval inside the track
\* that crosses a fixed-mode boundary k * W and is at most O long lies
\* entirely in at least one window of overlap chunking.
C12_ShortCrossingIntervalInSomeWindow ==
    (call.op = "split_audio_with_overlap" /\ 0 < call.overlap_duration
        /\ call.overlap_duration < call.segment_duration)
    => \A ab \in CrossingIntervals(audio_len, call.segment_duration) :
          ab[2] - ab[1] <= call.overlap_duration * 1000
          => ContainedInAWindow(ret, ab[1], ab[2])

\* the default windows (10 s, overlap 2 s): [9, 11) crosses the boundary at
\* 10 s and lies in the second window, which starts at 8 s
C12_Witness ==
    /\ call.op = "split_audio_with_overlap"
    /\ call.segment_duration = 10
    /\ call.overlap_duration = 2
    /\ <<9000, 11000>> \in CrossingIntervals(audio_len, call.segment_duration)
    /\ Len(ret) >= 2
    /\ ret[1].end < 11000
    /\ ret[2].start <= 9000
    /\ 11000 <= ret[2].end

\* C11: overlap chunking with step = segment duration - overlap duration
\* <= 0 is rejected: the call raises a failure (InvalidConfig / ConfigError)
\* instead of returning windows.
C11_NonPositiveStepRejected ==
    (call.op = "split_audio_with_overlap"
        /\ call.segment_duration - call.overlap_duration <= 0)
    => call.raised # ""

----------------------------------------------------------------------------
(***************************************************************************)
(* SpecText: the lexical and the fuzzy matcher of either detector on a     *)
(* text, with custom words added to the dictionary.                        *)
(***************************************************************************)
\* what texts are made of: single characters, and the Test phrase as it is
\* written in the dictionaries
TextPieces ==
    { <<"gan4">>, <<"kao4">>, <<"bei3">>, <<"kao3">>, <<"bei1">>,
      <<"comma">>, <<"la">>, GoogleTerm }

\* the texts of at most n pieces out of a set of pieces
RECURSIVE TextsOver(_, _)
TextsOver(pieces, n) ==
    IF n = 0 THEN {<<>>}
    ELSE LET shorter == TextsOver(pieces, n - 1)
         IN  shorter \cup {t \o piece : t \in shorter, piece \in pieces}

TextsUpTo(n) == TextsOver(TextPieces, n)

\* the word lists passed to add_custom_profanity
CustomWordLists ==
    LET kaobei == <<"kao3", "bei1">>
        google == <<"G", "o", "o", "g", "l", "e">>
    IN  { <<kaobei>>, <<google>>, <<kaobei, google>> }

InitText ==
    /\ audio_len = 0
    /\ ap_chunk_duration = DefaultChunkDuration
    /\ \E kind \in DetectorKinds : DetectorConstructed(kind)
    /\ input \in [text : TextsUpTo(MaxTextPieces)]
    /\ FilterConstructed(detector)
    /\ TrainerConstructed
    /\ NoFiles
    /\ call = [op |-> "init"]
    /\ ret = <<>>

\* self.profanity_words[word.lower()] = ["beep"] for each word: a new key
\* goes to the end of the dict, a present one stays where it is
RECURSIVE AddWords(_, _)
AddWords(keys, words) ==
    IF words = <<>> THEN keys
    ELSE LET key == Lower(words[1])
         IN  AddWords(IF key \in Range(keys) THEN keys ELSE Append(keys, key),
                      Tail(words))

AddCustomProfanity ==
    \E words \in CustomWordLists :
        /\ profanity_words' = AddWords(profanity_words, words)
        /\ call' = [op |-> "add_custom_profanity", words |-> words]
        /\ ret' = <<>>
        /\ UNCHANGED <<filterVars, threads, diskVars, trainerVars, audio_len,
                       ap_chunk_duration, detector, use_adaptive_detection,
                       adaptive_weight, is_trained, training_accuracy, input>>

DetectBasic ==
    /\ call' = [op |-> "detect_profanity_basic", text |-> input.text]
    /\ ret' = detect_profanity_basic(input.text)
    /\ UNCHANGED <<filterVars, threads, diskVars, trainerVars, audio_len,
                   ap_chunk_duration, detectorVars, input>>

DetectFuzzy ==
    /\ call' = [op |-> "detect_profanity_fuzzy", text |-> input.text]
    /\ ret' = detect_profanity_fuzzy(input.text)
    /\ UNCHANGED <<filterVars, threads, diskVars, trainerVars, audio_len,
                   ap_chunk_duration, detectorVars, input>>

NextText ==
    \/ AddCustomProfanity
    \/ DetectBasic
    \/ DetectFuzzy

SpecText == InitText /\ [][NextText]_vars

----------------------------------------------------------------------------
\* C7: detect_profanity_basic returns exactly the dictionary terms that
\* occur in the text: every dictionary term (built in or added by
\* add_custom_profanity) that the text contains is reported, and a reported
\* term is a dictionary term that occurs in the text (the case of letters
\* set aside).
C7_BasicReportsExactlyOccurringTerms ==
    call.op = "detect_profanity_basic"
    => /\ \A term \in Range(profanity_words) :
             Contains(call.text, term) => term \in Range(ret)
       /\ \A term \in Range(ret) :
             /\ term \in Range(profanity_words)
             /\ Contains(Lower(call.text), Lower(term))

\* C8: detect_profanity_fuzzy returns a list holding each canonical term
\* once if and only if one of the term's patterns matches somewhere in the
\* lower-cased text without its punctuation.
C8_FuzzyReportsMatchedTermsOnce ==
    call.op = "detect_profanity_fuzzy"
    => /\ ret # None
       /\ \A i, j \in 1..Len(ret[1]) : ret[1][i] = ret[1][j] => i = j
       /\ \A n \in 1..Len(profanity_patterns(detector)) :
             LET entry == profanity_patterns(detector)[n]
             IN  entry.term \in Range(ret[1])
                 <=> \E k \in 1..Len(entry.patterns) :
                        ReSearch(entry.patterns[k],
                                 StripPunctuation(Lower(call.text)))

----------------------------------------------------------------------------
(***************************************************************************)
(* SpecFusion: detect_profanity of either detector, on a detector whose    *)
(* adaptive model is trained, enabled and disabled.                        *)
(***************************************************************************)
\* texts with no hit, a lexical hit, a fuzzy hit, both for one term, both
\* for two terms, and a text only the fuzzy patterns of both detectors match
FusionTexts ==
    { <<>>, <<"la">>, <<"gan4">>, <<"kao3", "bei1">>, <<"kao4", "bei3">>,
      <<"gan4", "kao3", "bei1">>, <<"kao4", "bei1">> }

\* what predict_proba gives for the window's audio; None: it raises
ClassifierOutcomes == {None} \cup {Some(Rat(k, ProbScale)) : k \in 0..ProbScale}

Accuracies == {Rat(k, AccScale) : k \in 0..AccScale}

\* adaptive_weight: 0.7 and 0.3 as constructed, and other values in (0, 1)
\* a caller assigns to the attribute
AdaptiveWeights == {<<1, 10>>, <<3, 10>>, <<1, 2>>, <<7, 10>>, <<9, 10>>}

\* annotation batches: n annotations, valid of them labelled 'profanity'
\* or 'normal'
TrainBatches ==
    { [n |-> 3, valid |-> 3], [n |-> 5, valid |-> 3], [n |-> 5, valid |-> 4] }

InitFusion ==
    /\ audio_len = 0
    /\ ap_chunk_duration = DefaultChunkDuration
    /\ detector \in DetectorKinds
    /\ profanity_words = InitialProfanityWords(detector)
    /\ use_adaptive_detection = FALSE
    /\ adaptive_weight \in AdaptiveWeights
    /\ is_trained = FALSE
    /\ training_accuracy = <<0, 1>>
    /\ input \in [text : FusionTexts, audio_exists : BOOLEAN,
                  use_fuzzy : BOOLEAN, outcome : ClassifierOutcomes]
    /\ FilterConstructed(detector)
    /\ TrainerConstructed
    /\ NoFiles
    /\ call = [op |-> "init"]
    /\ ret = <<>>

\* train_adaptive_model(annotations) over quick_train_from_annotations:
\* fewer than 4 annotations, or fewer than 4 valid ones, train nothing;
\* otherwise the model is fitted, scored on its own samples (accuracy) and
\* marked trained, and the detector switches adaptive detection on when the
\* accuracy is above 0.5
TrainAdaptiveModel ==
    \E batch \in TrainBatches, accuracy \in Accuracies :
        /\ call' = [op |-> "train_adaptive_model", annotations |-> batch]
        /\ IF batch.n < 4 \/ batch.valid < 4
           THEN /\ accuracy = <<0, 1>>
                /\ ret' = [accuracy |-> <<0, 1>>, error |-> "insufficient"]
                /\ UNCHANGED <<is_trained, training_accuracy,
                               use_adaptive_detection, trainerVars>>
           ELSE /\ feature_scaler' = Some(batch)
                /\ audio_classifier' = Some([data |-> batch, fitted |-> TRUE])
                /\ training_accuracy' = accuracy
                /\ is_trained' = TRUE
                /\ ret' = [accuracy |-> accuracy, sample_count |-> batch.valid]
                /\ use_adaptive_detection' =
                      IF RatLT(<<1, 2>>, accuracy) THEN TRUE
                      ELSE use_adaptive_detection
        /\ UNCHANGED <<filterVars, threads, diskVars, audio_len,
                       ap_chunk_duration, detector, profanity_words,
                       adaptive_weight, input>>

\* enable_adaptive_detection(model_path): load_model restores only the
\* training history; when the file loads, detection is switched on
EnableAdaptiveDetection ==
    \E loaded \in BOOLEAN :
        /\ call' = [op |-> "enable_adaptive_detection", loaded |-> loaded]
        /\ use_adaptive_detection' = IF loaded THEN TRUE
                                     ELSE use_adaptive_detection
        /\ ret' = loaded
        /\ UNCHANGED <<filterVars, threads, diskVars, trainerVars, audio_len,
                       ap_chunk_duration, detector, profanity_words,
                       adaptive_weight, is_trained, training_accuracy, input>>

DisableAdaptiveDetection ==
    /\ call' = [op |-> "disable_adaptive_detection"]
    /\ use_adaptive_detection' = FALSE
    /\ ret' = <<>>
    /\ UNCHANGED <<filterVars, threads, diskVars, trainerVars, audio_len,
                   ap_chunk_duration, detector, profanity_words,
                   adaptive_weight, is_trained, training_accuracy, input>>

DetectProfanity ==
    /\ call' = [op |-> "detect_profanity"] @@ input
    /\ ret' = detect_profanity(input.text, input.audio_exists,
                               input.use_fuzzy, input.outcome)
    /\ UNCHANGED <<filterVars, threads, diskVars, trainerVars, audio_len,
                   ap_chunk_duration, detectorVars, input>>

NextFusion ==
    \/ TrainAdaptiveModel
    \/ EnableAdaptiveDetection
    \/ DisableAdaptiveDetection
    \/ DetectProfanity

SpecFusion == InitFusion /\ [][NextFusion]_vars

----------------------------------------------------------------------------
\* C3: the confidence detect_profanity returns lies within [0, 1], for any
\* combination of lexical, fuzzy and adaptive hits, any adaptive
\* probability and training accuracy in [0, 1] and any adaptive_weight in
\* (0, 1).
C3_ConfidenceWithinUnitInterval ==
    call.op = "detect_profanity"
    => /\ ret.error = ""
       /\ RatLE(<<0, 1>>, ret.confidence)
       /\ RatLE(ret.confidence, <<1, 1>>)

\* all three methods hit, the adaptive one with probability and accuracy 1
C3_Witness ==
    /\ call.op = "detect_profanity"
    /\ ret.methods_used = <<"basic_text", "fuzzy_text", "adaptive_audio">>
    /\ ret.adaptive_probability = <<1, 1>>
    /\ training_accuracy = <<1, 1>>
    /\ RatLT(<<4, 5>>, ret.confidence)

\* which methods produced a hit for the call, from what each method returns
LexicalHit ==
    call.text # <<>> /\ detect_profanity_basic(call.text) # <<>>

FuzzyHit ==
    call.text # <<>> /\ call.use_fuzzy
    /\ Truthy(detect_profanity_fuzzy(call.text))

AdaptiveHit ==
    call.audio_exists /\ detect_profanity_adaptive(call.outcome).detected # <<>>

C15_AdaptiveExcludedWhenUnavailable ==
    (call.op = "detect_profanity"
        /\ (~use_adaptive_detection \/ ~is_trained))
    => /\ "adaptive_audio" \notin Range(ret.methods_used)
       /\ AdaptiveMarker \notin ret.found_profanity
       /\ ret.error = ""
       /\ ret.confidence =
             IF LexicalHit /\ FuzzyHit THEN <<7, 10>>
             ELSE IF LexicalHit THEN <<4, 5>>
             ELSE IF FuzzyHit THEN <<3, 5>>
             ELSE <<0, 1>>

\* a trained model, detection switched off, a chunk file the classifier
\* would score 1.0, and a lexical hit: the confidence is the lexical 0.8
C15_Witness ==
    /\ call.op = "detect_profanity"
    /\ is_trained
    /\ ~use_adaptive_detection
    /\ call.audio_exists
    /\ call.outcome = Some(<<1, 1>>)
    /\ LexicalHit
    /\ ~FuzzyHit
    /\ ret.methods_used = <<"basic_text">>
    /\ ret.confidence = <<4, 5>>

\* C16: with adaptive detection enabled and a trained model, scoring an
\* existing chunk file is a hit exactly when the probability is greater
\* than 0.4; a scoring exception is no hit, with probability 0.
C16_AdaptiveHitAboveTwoFifths ==
    (call.op = "detect_profanity" /\ use_adaptive_detection /\ is_trained
        /\ call.audio_exists)
    => LET probability == IF call.outcome = None THEN <<0, 1>>
                          ELSE call.outcome[1]
       IN  /\ ret.adaptive_probability = probability
           /\ ("adaptive_audio" \in Range(ret.methods_used))
                 <=> RatLT(<<2, 5>>, probability)
           /\ (AdaptiveMarker \in ret.found_profanity)
                 <=> RatLT(<<2, 5>>, probability)

\* a probability of exactly 0.4 from the trained, enabled scorer: no hit
C16_Witness ==
    /\ call.op = "detect_profanity"
    /\ use_adaptive_detection
    /\ is_trained
    /\ call.audio_exists
    /\ call.outcome = Some(<<2, 5>>)
    /\ ret.adaptive_probability = <<2, 5>>
    /\ "adaptive_audio" \notin Range(ret.methods_used)

\* the terms the lexical method matches in the call's text
LexicalTerms ==
    IF call.text # <<>> THEN Range(detect_profanity_basic(call.text)) ELSE {}

\* the terms one of whose fuzzy patterns matches the call's text, when
\* fuzzy matching is asked for
FuzzyTerms ==
    IF call.text # <<>> /\ call.use_fuzzy THEN Range(FuzzyFound(call.text))
    ELSE {}

\* C17: detect_profanity reports a detection iff the lexical, the fuzzy or
\* the adaptive method has a hit, and found_profanity is the union of the
\* terms matched (with the adaptive marker for an adaptive hit), each once.
C17_FoundIsUnionOfMatchedTerms ==
    call.op = "detect_profanity"
    => /\ ret.found_profanity
             = LexicalTerms \cup FuzzyTerms
               \cup (IF AdaptiveHit THEN {AdaptiveMarker} ELSE {})
       /\ (ret.found_profanity # {})
             <=> (LexicalTerms # {} \/ FuzzyTerms # {} \/ AdaptiveHit)

----------------------------------------------------------------------------
(***************************************************************************)
(* SpecTiming: find_word_timing_in_segment on a window's text.             *)
(***************************************************************************)
TimingPieces ==
    { <<"gan4">>, <<"kao4", "bei3">>, <<"la">>, <<"comma">>,
      <<"G", "o", "o", "g", "l", "e">> }

RECURSIVE Repeat(_, _)
Repeat(c, n) == IF n = 0 THEN <<>> ELSE <<c>> \o Repeat(c, n - 1)

\* a text of 20 characters with the term of 2 characters at offset 10
ScenarioText == Repeat("la", 10) \o <<"kao4", "bei3">> \o Repeat("la", 8)

TimingTexts == TextsOver(TimingPieces, MaxTextPieces) \cup {ScenarioText}

\* the terms looked for: of 0, 1, 2 (twice), 3, 6 and 12 characters
TimingTargets ==
    { <<>>, <<"gan4">>, <<"gan4", "gan4">>, <<"kao4", "bei3">>,
      <<"kao4", "bei3", "la">>, <<"g", "o", "o", "g", "l", "e">>,
      GoogleTerm }

\* windows [start, end] in ms: shorter than a word's estimated duration,
\* and the 10 s windows of the default chunkers
TimingWindows ==
    { [start |-> 0, end |-> 500], [start |-> 3000, end |-> 4500],
      [start |-> 10000, end |-> 20000], [start |-> 8000, end |-> 18000] }

InitTiming ==
    /\ audio_len = 0
    /\ ap_chunk_duration = DefaultChunkDuration
    /\ DetectorConstructed(Basic)
    /\ input \in [text : TimingTexts, target_word : TimingTargets,
                  window : TimingWindows, file_exists : BOOLEAN]
    /\ FilterConstructed(detector)
    /\ TrainerConstructed
    /\ NoFiles
    /\ call = [op |-> "init"]
    /\ ret = <<>>

FindWordTimingInSegment ==
    /\ call' = [op |-> "find_word_timing_in_segment"] @@ input
    /\ ret' = find_word_timing_in_segment(
                  IF input.file_exists
                  THEN Some(input.window.end - input.window.start) ELSE None,
                  input.text, input.target_word, input.window.start)
    /\ UNCHANGED <<filterVars, threads, diskVars, trainerVars, audio_len,
                   ap_chunk_duration, detectorVars, input>>

NextTiming == FindWordTimingInSegment

SpecTiming == InitTiming /\ [][NextTiming]_vars

----------------------------------------------------------------------------
Occurrences(text, target) ==
    {o \in 0..(Len(text) - Len(target)) :
        Slice(Lower(text), o + 1, o + 1 + Len(target)) = Lower(target)}

\* C10: for an occurrence at offset o in a text of N characters in a window
\* [ws, we] of duration D the interval returned is
\* [ws + (o/N)*D, ws + min((o/N)*D + d, D)], d being 0.6 s for terms of at
\* most 2 characters, 1.2 s for at most 4 and 1.8 s otherwise (times in ms).
C10_TimingFormula ==
    (call.op = "find_word_timing_in_segment" /\ call.file_exists
        /\ Len(call.text) > 0)
    => LET N == Len(call.text)
           ws == call.window.start
           D == call.window.end - call.window.start
           L == Len(call.target_word)
           d == IF L <= 2 THEN 600 ELSE IF L <= 4 THEN 1200 ELSE 1800
           expected(o) ==
               << Rat(ws * N + o * D, N),
                  IF o * D + d * N <= D * N
                  THEN Rat(ws * N + o * D + d * N, N)
                  ELSE <<ws + D, 1>> >>
           occ == Occurrences(call.text, call.target_word)
       IN  /\ \A o \in occ : \E k \in 1..Len(ret) : ret[k] = expected(o)
           /\ \A k \in 1..Len(ret) : \E o \in occ : ret[k] = expected(o)

\* the scenario: window [10, 20], 20 characters, the 2-character term at
\* offset 10 gives [15.0, 15.6]
C10_Witness ==
    /\ call.op = "find_word_timing_in_segment"
    /\ call.window = [start |-> 10000, end |-> 20000]
    /\ call.text = ScenarioText
    /\ call.target_word = <<"kao4", "bei3">>
    /\ ret = << << <<15000, 1>>, <<15600, 1>> >> >>

\* the offsets of Occurrences in increasing order
RECURSIVE OccurrencesInOrder(_)
OccurrencesInOrder(offsets) ==
    IF offsets = {} THEN <<>>
    ELSE LET first == CHOOSE o \in offsets : \A p \in offsets : o <= p
         IN  <<first>> \o OccurrencesInOrder(offsets \ {first})

\* C22: for a readable chunk file, and text and term not both empty,
\* find_word_timing_in_segment returns exactly one interval for every
\* position at which the lower-cased term occurs in the lower-cased text,
\* in left-to-right order, occurrences that overlap one another included
\* (the k-th interval starts at the k-th position's share of the window).
C22_OneIntervalPerOccurrenceInOrder ==
    (call.op = "find_word_timing_in_segment" /\ call.file_exists
        /\ ~(call.text = <<>> /\ call.target_word = <<>>))
    => LET positions == OccurrencesInOrder(
                            Occurrences(call.text, call.target_word))
           ws == call.window.start
           D == call.window.end - call.window.start
       IN  /\ Len(ret) = Len(positions)
           /\ \A k \in 1..Len(ret) :
                 ret[k][1] = RatAdd(<<ws, 1>>,
                                    Rat(positions[k] * D, Len(call.text)))

\* the term "幹幹" in the text "幹幹幹": two occurrences that overlap, at
\* offsets 0 and 1
C22_Witness ==
    /\ call.op = "find_word_timing_in_segment"
    /\ call.file_exists
    /\ call.text = <<"gan4", "gan4", "gan4">>
    /\ call.target_word = <<"gan4", "gan4">>
    /\ call.window = [start |-> 3000, end |-> 4500]
    /\ Len(ret) = 2
    /\ ret[1][1] = <<3000, 1>>
    /\ ret[2][1] = <<3500, 1>>

----------------------------------------------------------------------------
(***************************************************************************)
(* Spec: a filter is configured and runs its pipeline over the audio       *)
(* track, window by window (process_video_segments of VideoProfanityFilter *)
(* around a ProfanityDetector, process_video_segments_enhanced of          *)
(* EnhancedVideoProfanityFilter around an EnhancedProfanityDetector).      *)
(***************************************************************************)
\* track lengths in ms: one short window; two windows; a second window
\* [10, 20] of full length
PipelineAudioLens == {1500, 12000, 20000}

\* chunk_duration values a caller configures, in seconds
ChunkDurations == {7, 10}

\* mute_padding values a caller configures, in ms
MutePaddings == {0, 500, 1000}

\* "幹" first and last of 10 characters
TwoOccurrencesText == <<"gan4">> \o Repeat("la", 8) \o <<"gan4">>

\* what the recognizer answers for a window: nothing; no term; two terms;
\* one term twice; a homophone of a term; the term in mid-window
PipelineTexts ==
    { <<>>, <<"la", "la">>, <<"kao4", "bei3", "la", "la", "gan4">>,
      TwoOccurrencesText, <<"kao3", "bei1", "la">>, ScenarioText }

OptionOf(S) == {None} \cup {Some(x) : x \in S}

\* the keyword arguments of configure_settings the model follows; None is
\* a keyword left out
AllSettingsKwargs ==
    [chunk_duration : OptionOf(ChunkDurations),
     precise_muting : OptionOf(BOOLEAN),
     mute_padding : OptionOf(MutePaddings),
     use_fuzzy_matching : OptionOf(BOOLEAN),
     use_overlap_segments : OptionOf(BOOLEAN),
     enable_adaptive_detection : OptionOf(BOOLEAN)]

\* at most so many keywords in one call of configure_settings
MaxKwargs == 2

SettingsKwargs ==
    {kwargs \in AllSettingsKwargs :
        Cardinality({key \in DOMAIN kwargs : kwargs[key] # None})
            <= MaxKwargs}

Init ==
    /\ audio_len \in PipelineAudioLens
    /\ ap_chunk_duration = DefaultChunkDuration
    /\ \E kind \in DetectorKinds : DetectorConstructed(kind)
    /\ input = <<>>
    /\ FilterConstructed(detector)
    /\ TrainerConstructed
    /\ NoFiles
    /\ call = [op |-> "init"]
    /\ ret = <<>>

Given(option, current) == IF option = None THEN current ELSE option[1]

\* configure_settings(**kwargs), before a run; loaded is whether
\* enable_adaptive_detection could load the model file
ConfigureSettings ==
    /\ pc = "idle"
    /\ \E kwargs \in SettingsKwargs, loaded \in BOOLEAN :
        /\ vf_chunk_duration' = Given(kwargs.chunk_duration, vf_chunk_duration)
        /\ ap_chunk_duration' = Given(kwargs.chunk_duration, ap_chunk_duration)
        /\ precise_muting' = Given(kwargs.precise_muting, precise_muting)
        /\ mute_padding' = Given(kwargs.mute_padding, mute_padding)
        /\ use_fuzzy_matching' =
              Given(kwargs.use_fuzzy_matching, use_fuzzy_matching)
        /\ use_overlap_segments' =
              Given(kwargs.use_overlap_segments, use_overlap_segments)
        /\ use_adaptive_detection' =
              IF kwargs.enable_adaptive_detection = None
              THEN use_adaptive_detection
              ELSE IF kwargs.enable_adaptive_detection[1]
              THEN (IF loaded THEN TRUE ELSE use_adaptive_detection)
              ELSE FALSE
        /\ call' = [op |-> "configure_settings"]
        /\ ret' = <<>>
        /\ UNCHANGED <<runVars, threads, diskVars, trainerVars, audio_len,
                       detector, profanity_words, adaptive_weight, is_trained,
                       training_accuracy, input>>

\* process_video_segments[_enhanced] up to its loop: the chunker is chosen
\* and the list of segments starts empty
StartRun ==
    /\ pc \in {"idle", "returned", "raised"}
    /\ chunks' = IF use_overlap_segments
                 THEN split_audio_with_overlap(audio_len,
                          DefaultSegmentDuration, DefaultOverlapDuration)
                 ELSE split_audio_chunks(audio_len, Some(vf_chunk_duration),
                                         ap_chunk_duration)
    /\ chunk_index' = 0
    /\ profanity_segments' = <<>>
    /\ pc' = "loop"
    /\ files' = ExportChunks(files, chunks')
    /\ call' = [op |-> "process_video_segments"]
    /\ ret' = <<>>
    /\ UNCHANGED <<settingsVars, threads, training_segments, trainerVars,
                   audio_len, ap_chunk_duration, detectorVars, input>>

\* one pass of the loop of VideoProfanityFilter in which
\* check_segment_quality fails: a window under 2 s always fails, any window
\* can (volume, silence); the pass ends at `continue`
SkipLowQualityWindow ==
    /\ pc = "loop"
    /\ chunk_index < Len(chunks)
    /\ detector = Basic
    /\ chunk_index' = chunk_index + 1
    /\ call' = [op |-> "skip", chunk |-> chunks[chunk_index + 1]]
    /\ ret' = <<>>
    /\ UNCHANGED <<settingsVars, pc, chunks, profanity_segments, threads,
                   diskVars, trainerVars, audio_len, ap_chunk_duration,
                   detectorVars, input>>

\* what the classifier can give for a chunk file; it is not consulted
\* unless adaptive detection is on and the model trained
WindowOutcomes ==
    IF use_adaptive_detection /\ is_trained THEN ClassifierOutcomes
    ELSE {None}

\* one pass of the loop over a window that is recognized: text is what
\* speech_to_text answers, outcome what the classifier gives for the chunk
\* file, found_profanity the list detect_profanity returns, in one of the
\* orders list(set(...)) can give.  VideoProfanityFilter moves on at once
\* when there is no text; an exception of detect_profanity ends the run.
\* A pass that reaches its end removes the window's chunk file.
ProcessWindow ==
    /\ pc = "loop"
    /\ chunk_index < Len(chunks)
    /\ \E text \in PipelineTexts, outcome \in WindowOutcomes :
      \E chunk \in {chunks[chunk_index + 1]},
         detection_result \in
             {detect_profanity(text, TRUE, use_fuzzy_matching, outcome)} :
        \E found_profanity \in Orderings(detection_result.found_profanity) :
          \E new_segments \in
                {IF (detector = Basic /\ text = <<>>) \/ found_profanity = <<>>
                 THEN <<>>
                 ELSE IF precise_muting
                 THEN PreciseSegments(chunk, text, found_profanity,
                                      detection_result)
                 ELSE << WholeSegment(chunk, text, found_profanity,
                                      detection_result) >>} :
            /\ detector = Basic => chunk.end - chunk.start >= MinQualityMs
            /\ call' = [op |-> "window", chunk |-> chunk, text |-> text,
                        use_fuzzy |-> use_fuzzy_matching,
                        audio_exists |-> TRUE, outcome |-> outcome,
                        found_profanity |->
                            IF detector = Basic /\ text = <<>> THEN <<>>
                            ELSE found_profanity]
            /\ IF ~(detector = Basic /\ text = <<>>)
                  /\ detection_result.error # ""
               THEN /\ pc' = "raised"
                    /\ ret' = detection_result.error
                    /\ UNCHANGED <<chunk_index, profanity_segments, files>>
               ELSE /\ pc' = pc
                    /\ ret' = new_segments
                    /\ chunk_index' = chunk_index + 1
                    /\ profanity_segments' =
                           ExtendSegments(profanity_segments, new_segments)
                    /\ files' = IF detector = Basic /\ text = <<>>
                                THEN files
                                ELSE RemoveFile(files, chunk.path)
            /\ UNCHANGED <<settingsVars, chunks, threads, training_segments,
                           trainerVars, audio_len, ap_chunk_duration,
                           detectorVars, input>>

\* the loop is through: return profanity_segments
ReturnSegments ==
    /\ pc = "loop"
    /\ chunk_index = Len(chunks)
    /\ pc' = "returned"
    /\ call' = [op |-> "return"]
    /\ ret' = profanity_segments
    /\ UNCHANGED <<settingsVars, chunks, chunk_index, profanity_segments,
                   threads, diskVars, trainerVars, audio_len,
                   ap_chunk_duration, detectorVars, input>>

Next ==
    \/ ConfigureSettings
    \/ StartRun
    \/ SkipLowQualityWindow
    \/ ProcessWindow
    \/ ReturnSegments

Spec == Init /\ [][Next]_vars

----------------------------------------------------------------------------
\* C5: the list of mute segments a pipeline run returns is sorted by
\* start_time in non-decreasing order, whatever the muting mode and the
\* chunking.
C5_ReturnedSegmentsSortedByStart ==
    pc = "returned"
    => \A k \in 1..(Len(profanity_segments) - 1) :
          RatLE(profanity_segments[k].start_time,
                profanity_segments[k + 1].start_time)

\* the candidate intervals of a window, in the order the loop meets them
RECURSIVE CandidateIntervals(_, _, _)
CandidateIntervals(chunk, text, found_profanity) ==
    IF found_profanity = <<>> THEN <<>>
    ELSE (IF Head(found_profanity) # AdaptiveMarker
          THEN find_word_timing_in_segment(Some(chunk.end - chunk.start),
                   text, Head(found_profanity), chunk.start)
          ELSE <<>>)
         \o CandidateIntervals(chunk, text, Tail(found_profanity))

\* C6: in precise-muting mode, with padding >= 0, each candidate interval
\* [s, e] found inside a window [ws, we] is emitted as the segment
\* [max(ws, s - padding), min(we, e + padding)], and
\* ws <= start <= end <= we holds for it.
C6_PaddingClippedToWindow ==
    (call.op = "window" /\ pc = "loop" /\ precise_muting /\ mute_padding >= 0)
    => LET ws == <<call.chunk.start, 1>>
           we == <<call.chunk.end, 1>>
           padding == <<mute_padding, 1>>
           candidates == CandidateIntervals(call.chunk, call.text,
                                            call.found_profanity)
       IN  /\ Len(ret) = Len(candidates)
           /\ \A k \in 1..Len(candidates) :
                 /\ ret[k].start_time
                      = RatMax(ws, RatSub(candidates[k][1], padding))
                 /\ ret[k].end_time
                      = RatMin(we, RatAdd(candidates[k][2], padding))
                 /\ RatLE(ws, ret[k].start_time)
                 /\ RatLE(ret[k].start_time, ret[k].end_time)
                 /\ RatLE(ret[k].end_time, we)

\* the scenario: padding 0.5, candidate [15.0, 15.6] in window [10, 20]
\* gives [14.5, 16.1]
C6_Witness ==
    /\ call.op = "window"
    /\ pc = "loop"
    /\ precise_muting
    /\ mute_padding = 500
    /\ call.chunk.start = 10000
    /\ call.chunk.end = 20000
    /\ CandidateIntervals(call.chunk, call.text, call.found_profanity)
          = << << <<15000, 1>>, <<15600, 1>> >> >>
    /\ Len(ret) = 1
    /\ ret[1].start_time = <<14500, 1>>
    /\ ret[1].end_time = <<16100, 1>>

\* C13: no two mute segments of the list a complete pipeline run returns
\* share any time, whatever the chunking and the muting mode.
C13_ReturnedSegmentsDisjoint ==
    pc = "returned"
    => \A j, k \in 1..Len(profanity_segments) :
          j < k
          => \/ RatLE(profanity_segments[j].end_time,
                      profanity_segments[k].start_time)
             \/ RatLE(profanity_segments[k].end_time,
                      profanity_segments[j].start_time)

\* C14: a window whose transcription is the empty string gives no lexical
\* and no fuzzy hit and raises no error: the loop goes on to the next
\* window with the detections of the windows before it kept, and a run that
\* returns has gone through every window.
C14_EmptyTextWindowIsPassedOver ==
    /\ [](pc = "returned" => chunk_index = Len(chunks))
    /\ [][(pc = "loop" /\ call'.op = "window" /\ call'.text = <<>>)
           => /\ pc' = "loop"
              /\ chunk_index' = chunk_index + 1
              /\ Len(profanity_segments') >= Len(profanity_segments)
              /\ SubSeq(profanity_segments', 1, Len(profanity_segments))
                    = profanity_segments
              /\ \A k \in (Len(profanity_segments) + 1)
                              ..Len(profanity_segments') :
                    /\ "basic_text" \notin
                          Range(profanity_segments'[k].methods)
                    /\ "fuzzy_text" \notin
                          Range(profanity_segments'[k].methods)]_vars

\* an empty transcription in the second or a later window, after a window
\* with a detection: the detection is still in the list and the loop goes on
C14_Witness ==
    /\ call.op = "window"
    /\ call.text = <<>>
    /\ pc = "loop"
    /\ chunk_index >= 2
    /\ chunk_index < Len(chunks)
    /\ profanity_segments # <<>>

\* C23: after configure_settings(chunk_duration = W) a run with overlap
\* chunking on cuts windows of length W: every window of the run that does
\* not end at the end of the track is W seconds long.
C23_OverlapWindowsHaveConfiguredDuration ==
    (pc \in {"loop", "returned"} /\ use_overlap_segments)
    => \A i \in 1..Len(chunks) :
          \/ chunks[i].end - chunks[i].start = vf_chunk_duration * 1000
          \/ chunks[i].end = audio_len

----------------------------------------------------------------------------
(***************************************************************************)
(* SpecEdgeWeight: detect_profanity on a detector whose adaptive_weight a  *)
(* caller has set to one of the ends of [0, 1].                            *)
(***************************************************************************)
EdgeWeights == {<<0, 1>>, <<1, 1>>}

InitEdgeWeight ==
    /\ audio_len = 0
    /\ ap_chunk_duration = DefaultChunkDuration
    /\ detector \in DetectorKinds
    /\ profanity_words = InitialProfanityWords(detector)
    /\ use_adaptive_detection = FALSE
    /\ adaptive_weight \in EdgeWeights
    /\ is_trained = FALSE
    /\ training_accuracy = <<0, 1>>
    /\ input \in [text : FusionTexts, audio_exists : BOOLEAN,
                  use_fuzzy : BOOLEAN, outcome : ClassifierOutcomes]
    /\ FilterConstructed(detector)
    /\ TrainerConstructed
    /\ NoFiles
    /\ call = [op |-> "init"]
    /\ ret = <<>>

SpecEdgeWeight == InitEdgeWeight /\ [][NextFusion]_vars

\* the fusion weights of the methods that hit sum to zero
HitWeightsSumToZero ==
    /\ ret.methods_used # <<>>
    /\ \A i \in 1..Len(ret.methods_used) :
          IF ret.methods_used[i] = "adaptive_audio"
          THEN adaptive_weight = <<0, 1>> ELSE adaptive_weight = <<1, 1>>

\* the largest base confidence among the hits
MaxBaseConfidence ==
    RatMaxOf([i \in 1..Len(ret.methods_used) |->
                 CASE ret.methods_used[i] = "basic_text" -> <<4, 5>>
                   [] ret.methods_used[i] = "fuzzy_text" -> <<3, 5>>
                   [] OTHER -> RatMul(ret.adaptive_probability,
                                      training_accuracy)])

----------------------------------------------------------------------------
(***************************************************************************)
(* SpecThreads: the GUI starts train_thread (train_adaptive_model over     *)
(* quick_train_from_annotations) and process_thread (which scores chunk    *)
(* files with predict_profanity_probability) as daemon threads on the same *)
(* AdaptiveTrainingModule, with no lock; a thread can be preempted between *)
(* any two statements.                                                     *)
(***************************************************************************)
\* annotation lists the training thread is started with: too few, and two
\* different sufficient ones
ThreadBatches ==
    { [n |-> 3, valid |-> 3], [n |-> 5, valid |-> 4], [n |-> 6, valid |-> 6] }

InitThreads ==
    /\ audio_len = 0
    /\ ap_chunk_duration = DefaultChunkDuration
    /\ \E kind \in DetectorKinds : DetectorConstructed(kind)
    /\ input = <<>>
    /\ FilterConstructed(detector)
    /\ TrainerConstructed
    /\ NoFiles
    /\ call = [op |-> "init"]
    /\ ret = <<>>

Untouched == <<audio_len, ap_chunk_duration, detector, profanity_words,
               adaptive_weight, diskVars, filterVars, input, call, ret>>

\* train_thread starts: quick_train_from_annotations returns at once on
\* fewer than 4 (valid) annotations, else goes on to fit the scaler
TrainStart ==
    /\ threads.train.pc = "idle"
    /\ \E batch \in ThreadBatches :
          threads' = [threads EXCEPT !.train =
              IF batch.n < 4 \/ batch.valid < 4
              THEN [pc |-> "return", accuracy |-> <<0, 1>>]
              ELSE [pc |-> "fit_scaler", batch |-> batch]]
    /\ UNCHANGED <<Untouched, trainerVars, is_trained, training_accuracy,
                   use_adaptive_detection>>

\* X_scaled = self.feature_scaler.fit_transform(X)
TrainFitScaler ==
    /\ threads.train.pc = "fit_scaler"
    /\ feature_scaler' = Some(threads.train.batch)
    /\ threads' = [threads EXCEPT !.train.pc = "new_classifier"]
    /\ UNCHANGED <<Untouched, audio_classifier, is_trained,
                   training_accuracy, use_adaptive_detection>>

\* self.audio_classifier = RandomForestClassifier(...): not fitted yet
TrainNewClassifier ==
    /\ threads.train.pc = "new_classifier"
    /\ audio_classifier' =
          Some([data |-> threads.train.batch, fitted |-> FALSE])
    /\ threads' = [threads EXCEPT !.train.pc = "fit"]
    /\ UNCHANGED <<Untouched, feature_scaler, is_trained, training_accuracy,
                   use_adaptive_detection>>

\* self.audio_classifier.fit(X_scaled, y)
TrainFit ==
    /\ threads.train.pc = "fit"
    /\ audio_classifier' =
          Some([data |-> audio_classifier[1].data, fitted |-> TRUE])
    /\ threads' = [threads EXCEPT !.train.pc = "score"]
    /\ UNCHANGED <<Untouched, feature_scaler, is_trained, training_accuracy,
                   use_adaptive_detection>>

\* accuracy = self.audio_classifier.score(...); self.training_accuracy =
\* accuracy
TrainScore ==
    /\ threads.train.pc = "score"
    /\ \E accuracy \in Accuracies :
          /\ training_accuracy' = accuracy
          /\ threads' = [threads EXCEPT !.train =
                            [pc |-> "set_trained", accuracy |-> accuracy]]
    /\ UNCHANGED <<Untouched, trainerVars, is_trained,
                   use_adaptive_detection>>

\* self.is_trained = True
TrainSetTrained ==
    /\ threads.train.pc = "set_trained"
    /\ is_trained' = TRUE
    /\ threads' = [threads EXCEPT !.train.pc = "return"]
    /\ UNCHANGED <<Untouched, trainerVars, training_accuracy,
                   use_adaptive_detection>>

\* back in train_adaptive_model of the detector: an accuracy above 0.5
\* switches adaptive detection on; the thread ends
TrainReturn ==
    /\ threads.train.pc = "return"
    /\ use_adaptive_detection' =
          IF RatLT(<<1, 2>>, threads.train.accuracy) THEN TRUE
          ELSE use_adaptive_detection
    /\ threads' = [threads EXCEPT !.train = [pc |-> "idle"]]
    /\ UNCHANGED <<Untouched, trainerVars, is_trained, training_accuracy>>

\* process_thread calls predict_profanity_probability: 0.0 at once unless
\* is_trained and a classifier is set
ScoreCall ==
    /\ threads.score.pc = "idle"
    /\ threads' = [threads EXCEPT !.score =
          IF ~is_trained \/ audio_classifier = None
          THEN [pc |-> "done", used_model |-> FALSE, probability |-> <<0, 1>>]
          ELSE [pc |-> "transform"]]
    /\ UNCHANGED <<Untouched, trainerVars, is_trained, training_accuracy,
                   use_adaptive_detection>>

\* features_scaled = self.feature_scaler.transform([features])
ScoreTransform ==
    /\ threads.score.pc = "transform"
    /\ threads' = [threads EXCEPT !.score =
                      [pc |-> "predict", scaler |-> feature_scaler]]
    /\ UNCHANGED <<Untouched, trainerVars, is_trained, training_accuracy,
                   use_adaptive_detection>>

\* self.audio_classifier.predict_proba(features_scaled)[0][1]; a classifier
\* that is not fitted raises, and the bare except returns 0.0
ScorePredict ==
    /\ threads.score.pc = "predict"
    /\ \E outcome \in
            IF audio_classifier = None \/ ~audio_classifier[1].fitted
            THEN {<<0, 1>>}
            ELSE {<<p, ProbScale>> : p \in 0..ProbScale} :
          threads' = [threads EXCEPT !.score =
              [pc |-> "done", used_model |-> TRUE,
               scaler |-> threads.score.scaler,
               classifier |-> audio_classifier, probability |-> outcome]]
    /\ UNCHANGED <<Untouched, trainerVars, is_trained, training_accuracy,
                   use_adaptive_detection>>

\* the scoring call has returned; the next chunk file can be scored
ScoreReturn ==
    /\ threads.score.pc = "done"
    /\ threads' = [threads EXCEPT !.score = [pc |-> "idle"]]
    /\ UNCHANGED <<Untouched, trainerVars, is_trained, training_accuracy,
                   use_adaptive_detection>>

NextThreads ==
    \/ TrainStart
    \/ TrainFitScaler
    \/ TrainNewClassifier
    \/ TrainFit
    \/ TrainScore
    \/ TrainSetTrained
    \/ TrainReturn
    \/ ScoreCall
    \/ ScoreTransform
    \/ ScorePredict
    \/ ScoreReturn

SpecThreads == InitThreads /\ [][NextThreads]_vars

\* the scaler and the classifier a finished scoring call used come from one
\* and the same completed training
ScoredWithOneModel ==
    /\ threads.score.classifier # None
    /\ threads.score.classifier[1].fitted
    /\ threads.score.scaler = Some(threads.score.classifier[1].data)

\* C19: a scoring call that runs while the GUI's training thread retrains
\* the model uses a scaler and a classifier of the same training, either
\* all from before or all from after the training call
C19_ScoringSeesOneModel ==
    (threads.score.pc = "done" /\ threads.score.used_model)
        => ScoredWithOneModel

----------------------------------------------------------------------------
(***************************************************************************)
(* SpecRender: VideoMutingProcessor renders a segment list onto the sound  *)
(* track.  The track is a sequence of cells of one time unit; cell k       *)
(* covers [k-1, k) and a rendered cell holds the number of the source cell *)
(* it plays, or Silent.  Segment bounds are whole time units; the audio    *)
(* frame of cell k is stamped inside the cell, at k - 1/2, so timestamps   *)
(* are compared doubled.                                                   *)
(***************************************************************************)
MaxRenderCells == 5
MaxRenderSegments == 2
Silent == 0

\* audio.subclip(t_start, t_end): the source cells of [t_start, t_end)
Subclip(t_start, t_end) == [j \in 1..(t_end - t_start) |-> t_start + j]

\* AudioSegment.silent(duration) exported and reopened as a clip
SilenceClip(duration) == [j \in 1..duration |-> Silent]

\* ffmpeg's between(t, min, max): min <= t <= max
Between(t, min, max) == min <= t /\ t <= max

\* the chained filters volume=0:enable='between(t,start,end)', one per
\* segment: a frame is silenced when any of them is enabled at its time
create_muted_video_with_ffmpeg(duration, segments) ==
    IF segments = <<>> THEN Subclip(0, duration)
    ELSE [k \in 1..duration |->
            IF \E i \in DOMAIN segments :
                   Between(2 * k - 1, 2 * segments[i].start_time,
                           2 * segments[i].end_time)
            THEN Silent ELSE k]

RECURSIVE MoviePyClips(_, _, _, _)
\* the loop over profanity_segments: the normal clip from last_end up to
\* the segment when the segment starts later, then a silence of the
\* segment's length, then last_end = end_time
MoviePyClips(segments, i, last_end, audio_clips) ==
    IF i > Len(segments) THEN [last_end |-> last_end, clips |-> audio_clips]
    ELSE LET start_time == segments[i].start_time
             end_time == segments[i].end_time
             normal_clip == IF start_time > last_end
                            THEN Subclip(last_end, start_time) ELSE <<>>
         IN  MoviePyClips(segments, i + 1, end_time,
                 audio_clips \o normal_clip
                     \o SilenceClip(end_time - start_time))

\* concatenate_audioclips of the loop's clips and of the rest of the
\* track after last_end
create_muted_video_with_moviepy(duration, segments) ==
    IF segments = <<>> THEN Subclip(0, duration)
    ELSE LET loop == MoviePyClips(segments, 1, 0, <<>>)
         IN  IF loop.last_end < duration
             THEN loop.clips \o Subclip(loop.last_end, duration)
             ELSE loop.clips

RenderIntervals(duration) ==
    { [start_time |-> a, end_time |-> b] : a \in 0..duration,
                                          b \in 0..duration }

\* segment lists in any order, overlapping or not, each within the track
\* and of positive length
RenderSegmentLists(duration) ==
    UNION { [1..n -> { seg \in RenderIntervals(duration) :
                          seg.start_time < seg.end_time }] :
            n \in 0..MaxRenderSegments }

InitRender ==
    /\ audio_len = 0
    /\ ap_chunk_duration = DefaultChunkDuration
    /\ DetectorConstructed(Basic)
    /\ FilterConstructed(detector)
    /\ TrainerConstructed
    /\ NoFiles
    /\ \E duration \in 1..MaxRenderCells :
          \E segments \in RenderSegmentLists(duration) :
             input = [duration |-> duration, profanity_segments |-> segments]
    /\ call = [op |-> "init"]
    /\ ret = <<>>

CreateMutedVideoWithFFmpeg ==
    /\ call' = [op |-> "create_muted_video_with_ffmpeg"]
    /\ ret' = Some(create_muted_video_with_ffmpeg(input.duration,
                                                  input.profanity_segments))
    /\ UNCHANGED <<audio_len, ap_chunk_duration, detectorVars, trainerVars,
                   threads, diskVars, filterVars, input>>

CreateMutedVideoWithMoviePy ==
    /\ call' = [op |-> "create_muted_video_with_moviepy"]
    /\ ret' = Some(create_muted_video_with_moviepy(input.duration,
                                                   input.profanity_segments))
    /\ UNCHANGED <<audio_len, ap_chunk_duration, detectorVars, trainerVars,
                   threads, diskVars, filterVars, input>>

NextRender ==
    \/ CreateMutedVideoWithFFmpeg
    \/ CreateMutedVideoWithMoviePy

SpecRender == InitRender /\ [][NextRender]_vars

\* the source track silenced on exactly the cells inside some range
MutedOnUnion(duration, segments) ==
    [k \in 1..duration |->
        IF \E i \in DOMAIN segments :
               segments[i].start_time <= k - 1 /\ k <= segments[i].end_time
        THEN Silent ELSE k]

\* C20: for any segment list, overlapping or out of order, the rendered
\* track is silent on exactly the union of the ranges, plays the source
\* everywhere else and is as long as the source, on the FFmpeg and on the
\* MoviePy path
C20_RenderingMutesExactlyTheUnion ==
    call.op \in {"create_muted_video_with_ffmpeg",
                 "create_muted_video_with_moviepy"}
        => ret = Some(MutedOnUnion(input.duration,
                                   input.profanity_segments))

----------------------------------------------------------------------------
(***************************************************************************)
(* SpecAdaptive: the pipeline of a filter whose adaptive model is trained  *)
(* before its runs (train_adaptive_model of the filter hands the           *)
(* annotations to the detector), on a track of two windows.                *)
(***************************************************************************)
InitAdaptive ==
    /\ audio_len = 12000
    /\ ap_chunk_duration = DefaultChunkDuration
    /\ \E kind \in DetectorKinds : DetectorConstructed(kind)
    /\ input = <<>>
    /\ FilterConstructed(detector)
    /\ TrainerConstructed
    /\ NoFiles
    /\ call = [op |-> "init"]
    /\ ret = <<>>

\* VideoProfanityFilter.train_adaptive_model, called before the runs
TrainBeforeRuns ==
    /\ pc = "idle"
    /\ TrainAdaptiveModel

\* configure_settings(precise_muting=..., use_fuzzy_matching=...)
ConfigureMuting ==
    /\ ConfigureSettings
    /\ UNCHANGED <<vf_chunk_duration, ap_chunk_duration, mute_padding,
                   use_overlap_segments, use_adaptive_detection>>

NextAdaptive ==
    \/ TrainBeforeRuns
    \/ ConfigureMuting
    \/ StartRun
    \/ SkipLowQualityWindow
    \/ ProcessWindow
    \/ ReturnSegments

SpecAdaptive == InitAdaptive /\ [][NextAdaptive]_vars

----------------------------------------------------------------------------
\* the window of the last pass was given to detect_profanity
\* (VideoProfanityFilter does not ask it about a window without text), and
\* one of the three methods reported something
WindowHit ==
    /\ ~(detector = Basic /\ call.text = <<>>)
    /\ (LexicalHit \/ FuzzyHit \/ AdaptiveHit)

\* the segments the last pass of the loop appended are the last of the list
AppendedByPass ==
    /\ Len(ret) <= Len(profanity_segments)
    /\ SubSeq(profanity_segments, Len(profanity_segments) - Len(ret) + 1,
              Len(profanity_segments)) = ret

LiteralTerms ==
    {word \in Range(call.found_profanity) :
        word # AdaptiveMarker /\ Contains(Lower(call.text), Lower(word))}

\* C28: in precise-muting mode a window adds mute segments only for
\* matched terms that occur literally in the transcribed text, and for
\* each of those; a window whose only hits are fuzzy matches of a term
\* absent from the text, or the adaptive marker, adds no segment although
\* it was detected.
C28_PreciseModeMutesLiteralTermsOnly ==
    (call.op = "window" /\ pc = "loop" /\ precise_muting)
    => /\ AppendedByPass
       /\ \A k \in 1..Len(ret) :
             \E word \in LiteralTerms : ret[k].profanity = <<word>>
       /\ \A word \in LiteralTerms :
             \E k \in 1..Len(ret) : ret[k].profanity = <<word>>
       /\ LiteralTerms = {} => ret = <<>>

\* precise mode: the text "考杯啦" matches only the fuzzy pattern of "靠北"
\* and the classifier hits too; the window is detected and adds nothing
C28_Witness ==
    /\ call.op = "window"
    /\ pc = "loop"
    /\ precise_muting
    /\ call.text = <<"kao3", "bei1", "la">>
    /\ Range(call.found_profanity) = {<<"kao4", "bei3">>, AdaptiveMarker}
    /\ ret = <<>>
    /\ profanity_segments = <<>>

\* C29: whether a window is muted does not depend on the fused
\* confidence: in whole-window mode every window with a detection is
\* emitted, also with a confidence of 0 (an adaptive-only hit of a model
\* whose recorded accuracy is 0), and the confidence is carried in the
\* segment as detect_profanity computed it.
C29_MutingIgnoresConfidence ==
    (call.op = "window" /\ pc = "loop" /\ ~precise_muting
        /\ call.found_profanity # <<>>)
    => /\ AppendedByPass
       /\ Len(ret) = 1
       /\ ret[1].start_time = <<call.chunk.start, 1>>
       /\ ret[1].end_time = <<call.chunk.end, 1>>
       /\ ret[1].confidence
             = detect_profanity(call.text, call.audio_exists, call.use_fuzzy,
                                call.outcome).confidence

\* the classifier alone hits, with probability 3/5, and the model's
\* recorded accuracy is 0: the window is muted with confidence 0
C29_Witness ==
    /\ call.op = "window"
    /\ pc = "loop"
    /\ ~precise_muting
    /\ training_accuracy = <<0, 1>>
    /\ call.outcome = Some(<<3, 5>>)
    /\ Len(ret) = 1
    /\ ret[1].methods = <<"adaptive_audio">>
    /\ ret[1].confidence = <<0, 1>>
    /\ profanity_segments[Len(profanity_segments)] = ret[1]

----------------------------------------------------------------------------
(***************************************************************************)
(* SpecTraining: train_adaptive_model, incremental_train_model and         *)
(* retrain_adaptive_model of a fresh detector, in any order, and the       *)
(* adaptive method asked in between.                                       *)
(***************************************************************************)
\* annotation batches: n annotations, valid of them labelled 'profanity'
\* or 'normal'
TrainingBatches ==
    { [n |-> 1, valid |-> 1], [n |-> 3, valid |-> 3], [n |-> 5, valid |-> 3],
      [n |-> 5, valid |-> 4], [n |-> 6, valid |-> 6] }

\* the attributes of the AdaptiveTrainingModule the training calls work on
TrainerState ==
    [feature_scaler |-> feature_scaler, audio_classifier |-> audio_classifier,
     is_trained |-> is_trained, training_accuracy |-> training_accuracy]

\* quick_train_from_annotations(annotations): the module after the call
\* and the dict returned; accuracy is what the fitted classifier scores on
\* its own samples
quick_train_from_annotations(module, batch, accuracy) ==
    IF batch.n < 4
    THEN [module |-> module,
          result |-> [accuracy |-> <<0, 1>>, error |-> "insufficient_data"]]
    ELSE IF batch.valid < 4
    THEN [module |-> module,
          result |-> [accuracy |-> <<0, 1>>,
                      error |-> "insufficient_valid_data"]]
    ELSE [module |-> [feature_scaler |-> Some(batch),
                      audio_classifier |->
                          Some([data |-> batch, fitted |-> TRUE]),
                      is_trained |-> TRUE,
                      training_accuracy |-> accuracy],
          result |-> [accuracy |-> accuracy, sample_count |-> batch.valid]]

incremental_train_Keep(module, batch, accuracy) ==
    [module |-> module,
     result |-> [accuracy |-> module.training_accuracy,
                 sample_count |-> batch.valid]]

\* incremental_train(new_annotations): a module not yet trained is trained
\* on the batch; a trained one needs 2 valid annotations and is then
\* trained anew by quick_train_from_annotations(new_annotations)
incremental_train(module, batch, accuracy) ==
    IF ~module.is_trained
    THEN quick_train_from_annotations(module, batch, accuracy)
    ELSE IF batch.valid < 2
    THEN [module |-> module, result |-> [error |-> "insufficient_new_data"]]
    ELSE quick_train_from_annotations(module, batch, accuracy)

retrain_model_NoReset(module, batch, accuracy) ==
    quick_train_from_annotations(module, batch, accuracy)

\* retrain_model(all_annotations): audio_classifier = None and
\* is_trained = False, then quick_train_from_annotations(all_annotations)
retrain_model(module, batch, accuracy) ==
    quick_train_from_annotations(
        [module EXCEPT !.audio_classifier = None, !.is_trained = FALSE],
        batch, accuracy)

\* result.get('accuracy', 0)
ResultAccuracy(result) ==
    IF "accuracy" \in DOMAIN result THEN result.accuracy ELSE <<0, 1>>

\* the detector's side of a training call: the module takes the state the
\* trainer left, and an accuracy above 0.5 switches adaptive detection on
TrainingCall(op, batch, out) ==
    /\ call' = [op |-> op, annotations |-> batch, before |-> TrainerState,
                enabled_before |-> use_adaptive_detection]
    /\ feature_scaler' = out.module.feature_scaler
    /\ audio_classifier' = out.module.audio_classifier
    /\ is_trained' = out.module.is_trained
    /\ training_accuracy' = out.module.training_accuracy
    /\ ret' = out.result
    /\ use_adaptive_detection' =
          IF RatLT(<<1, 2>>, ResultAccuracy(out.result)) THEN TRUE
          ELSE use_adaptive_detection
    /\ UNCHANGED <<filterVars, threads, diskVars, audio_len,
                   ap_chunk_duration, detector, profanity_words,
                   adaptive_weight, input>>

InitTraining ==
    /\ audio_len = 0
    /\ ap_chunk_duration = DefaultChunkDuration
    /\ \E kind \in DetectorKinds : DetectorConstructed(kind)
    /\ input = <<>>
    /\ FilterConstructed(detector)
    /\ TrainerConstructed
    /\ NoFiles
    /\ call = [op |-> "init"]
    /\ ret = <<>>

\* an accuracy is drawn only for a call that fits a classifier
Fitted(out) == "sample_count" \in DOMAIN out.result

\* incremental_train_model and retrain_adaptive_model are methods of
\* ProfanityDetector only
IncrementalTrainModel ==
    /\ detector = Basic
    /\ \E batch \in TrainingBatches, accuracy \in Accuracies :
      \E out \in {incremental_train(TrainerState, batch, accuracy)} :
        /\ ~Fitted(out) => accuracy = <<0, 1>>
        /\ TrainingCall("incremental_train_model", batch, out)

RetrainAdaptiveModel ==
    /\ detector = Basic
    /\ \E batch \in TrainingBatches, accuracy \in Accuracies :
      \E out \in {retrain_model(TrainerState, batch, accuracy)} :
        /\ ~Fitted(out) => accuracy = <<0, 1>>
        /\ TrainingCall("retrain_adaptive_model", batch, out)

\* detect_profanity_adaptive on a chunk file the classifier gives outcome
\* for
DetectProfanityAdaptive ==
    \E outcome \in ClassifierOutcomes :
        /\ call' = [op |-> "detect_profanity_adaptive", outcome |-> outcome]
        /\ ret' = detect_profanity_adaptive(outcome)
        /\ UNCHANGED <<filterVars, threads, diskVars, trainerVars, audio_len,
                       ap_chunk_duration, detectorVars, input>>

NextTraining ==
    \/ TrainAdaptiveModel
    \/ IncrementalTrainModel
    \/ RetrainAdaptiveModel
    \/ DetectProfanityAdaptive

SpecTraining == InitTraining /\ [][NextTraining]_vars

C25_EnabledOnlyAboveHalfAccuracy ==
    use_adaptive_detection => RatLT(<<1, 2>>, training_accuracy)

\* C27: retrain_model with fewer than 4 valid annotations returns an
\* 'insufficient' error and leaves the module untrained, without a
\* classifier, also when it was trained before; training_accuracy and
\* use_adaptive_detection keep their values, and the adaptive method
\* reports no hit whatever the chunk.
C27_InsufficientRetrainLeavesUntrained ==
    (call.op = "retrain_adaptive_model"
        /\ (call.annotations.n < 4 \/ call.annotations.valid < 4))
    => /\ "error" \in DOMAIN ret
       /\ ret.error \in {"insufficient_data", "insufficient_valid_data"}
       /\ ~is_trained
       /\ audio_classifier = None
       /\ training_accuracy = call.before.training_accuracy
       /\ use_adaptive_detection = call.enabled_before
       /\ \A outcome \in ClassifierOutcomes :
             detect_profanity_adaptive(outcome).detected = <<>>

\* a trained and enabled model is given 5 annotations of which 3 are valid
C27_Witness ==
    /\ call.op = "retrain_adaptive_model"
    /\ call.annotations = [n |-> 5, valid |-> 3]
    /\ call.before.is_trained
    /\ call.before.audio_classifier # None
    /\ call.enabled_before
    /\ RatLT(<<1, 2>>, training_accuracy)
    /\ ~is_trained
    /\ ret.error = "insufficient_valid_data"

----------------------------------------------------------------------------
(***************************************************************************)
(* SpecModelFile: a model is trained and saved, and a detector constructed *)
(* later enables adaptive detection from the saved file.                   *)
(***************************************************************************)
\* 'adaptive_model.pkl'
ModelPath == <<"adaptive_model.pkl", 0>>

\* save_model(model_path): the pickled model_data
save_model(module) ==
    [kind |-> "pkl", audio_classifier |-> module.audio_classifier,
     feature_scaler |-> module.feature_scaler,
     training_accuracy |-> module.training_accuracy,
     is_trained |-> module.is_trained]

load_model_Restore(module, model_data) ==
    [feature_scaler |-> model_data.feature_scaler,
     audio_classifier |-> model_data.audio_classifier,
     is_trained |-> model_data.is_trained,
     training_accuracy |-> model_data.training_accuracy]

\* load_model(model_path), for a file that unpickles: training_history
\* and all_training_data are taken from model_data, nothing else is
load_model(module, model_data) == module

InitModelFile ==
    /\ audio_len = 0
    /\ ap_chunk_duration = DefaultChunkDuration
    /\ \E kind \in DetectorKinds : DetectorConstructed(kind)
    /\ input = <<>>
    /\ FilterConstructed(detector)
    /\ TrainerConstructed
    /\ NoFiles
    /\ call = [op |-> "init"]
    /\ ret = <<>>

\* save_adaptive_model(model_path): only a trained module is saved
SaveAdaptiveModel ==
    /\ call' = [op |-> "save_adaptive_model"]
    /\ files' = IF is_trained
                THEN WriteFile(files, ModelPath, save_model(TrainerState))
                ELSE files
    /\ ret' = <<>>
    /\ UNCHANGED <<filterVars, threads, training_segments, trainerVars,
                   audio_len, ap_chunk_duration, detectorVars, input>>

\* a detector of the same class is constructed anew (the program is
\* started again); the working directory stays as it is
ConstructDetector ==
    /\ call' = [op |-> "construct"]
    /\ use_adaptive_detection' = FALSE
    /\ adaptive_weight' = InitialAdaptiveWeight(detector)
    /\ profanity_words' = InitialProfanityWords(detector)
    /\ is_trained' = FALSE
    /\ training_accuracy' = <<0, 1>>
    /\ feature_scaler' = None
    /\ audio_classifier' = None
    /\ ret' = <<>>
    /\ UNCHANGED <<filterVars, threads, diskVars, audio_len,
                   ap_chunk_duration, detector, input>>

\* enable_adaptive_detection(model_path): when the file exists and
\* load_model returns True, adaptive detection is switched on
EnableAdaptiveDetectionFromFile ==
    \E out \in {IF FileExists(files, ModelPath)
                THEN [loaded |-> TRUE,
                      module |-> load_model(TrainerState,
                                     FileContent(files, ModelPath)[1])]
                ELSE [loaded |-> FALSE, module |-> TrainerState]} :
        /\ call' = [op |-> "enable_adaptive_detection",
                    model_path |-> ModelPath, before |-> TrainerState]
        /\ feature_scaler' = out.module.feature_scaler
        /\ audio_classifier' = out.module.audio_classifier
        /\ is_trained' = out.module.is_trained
        /\ training_accuracy' = out.module.training_accuracy
        /\ use_adaptive_detection' = IF out.loaded THEN TRUE
                                     ELSE use_adaptive_detection
        /\ ret' = out.loaded
        /\ UNCHANGED <<filterVars, threads, diskVars, audio_len,
                       ap_chunk_duration, detector, profanity_words,
                       adaptive_weight, input>>

NextModelFile ==
    \/ TrainAdaptiveModel
    \/ SaveAdaptiveModel
    \/ ConstructDetector
    \/ EnableAdaptiveDetectionFromFile
    \/ DetectProfanityAdaptive

SpecModelFile == InitModelFile /\ [][NextModelFile]_vars

----------------------------------------------------------------------------
(***************************************************************************)
(* SpecFiles: the chunk files of the working directory.  The GUI creates   *)
(* training segments from a video (create_training_segments_from_video)    *)
(* and runs process_video, in any order: the extraction of the track, the  *)
(* pipeline over its windows, the rendering and the cleanup.               *)
(***************************************************************************)
\* create_training_segments(): create_training_segments_from_video(path, 4)
TrainingSegmentDuration == 4

\* lengths in ms of the track of the video the segments are cut from: one
\* segment and a shorter one; three segments
TrainingAudioLens == {6000, 12000}

\* one entry of training_segments; its text, detection and labels name no
\* file and are not followed
TrainingSegment(i, chunk) ==
    [segment_id |-> i, segment_path |-> chunk.path,
     start_time |-> chunk.start, end_time |-> chunk.end]

\* the file of a training segment holds the stretch of audio the segment
\* was cut from
HoldsAnnotatedAudio(fs, segment) ==
    FileContent(fs, segment.segment_path)
        = Some([kind |-> "wav", start |-> segment.start_time,
                end |-> segment.end_time])

InitFiles ==
    /\ audio_len \in PipelineAudioLens
    /\ ap_chunk_duration = DefaultChunkDuration
    /\ \E kind \in DetectorKinds : DetectorConstructed(kind)
    /\ input = <<>>
    /\ FilterConstructed(detector)
    /\ TrainerConstructed
    /\ NoFiles
    /\ call = [op |-> "init"]
    /\ ret = <<>>

\* configure_settings(chunk_duration=..., use_overlap_segments=...)
ConfigureChunking ==
    /\ ConfigureSettings
    /\ UNCHANGED <<precise_muting, mute_padding, use_fuzzy_matching,
                   use_adaptive_detection>>

\* create_training_segments_from_video(video_path, 4), its result stored in
\* self.training_segments by the GUI.  extracted is whether
\* extract_audio_from_video gave a track; chunk_duration of the audio
\* processor is set to 4 and restored.
CreateTrainingSegments ==
    /\ pc = "idle"
    /\ \E total \in TrainingAudioLens, extracted \in BOOLEAN :
        \E new_chunks \in
              {IF extracted
               THEN split_audio_chunks(total, Some(TrainingSegmentDuration),
                                       TrainingSegmentDuration)
               ELSE <<>>} :
          /\ files' = ExportChunks(files, new_chunks)
          /\ training_segments' =
                [i \in 1..Len(new_chunks) |->
                    TrainingSegment(i - 1, new_chunks[i])]
          /\ call' = [op |-> "create_training_segments_from_video"]
          /\ ret' = training_segments'
    /\ UNCHANGED <<filterVars, threads, trainerVars, audio_len,
                   ap_chunk_duration, detectorVars, input>>

\* process_video after process_video_segments[_enhanced] has returned:
\* create_muted_video gives a path or None, the extracted track is removed,
\* cleanup_temp_files() runs and the result is returned; the list of
\* segments and the chunk list were locals of the call
FinishProcessVideo ==
    /\ pc = "returned"
    /\ \E result_path \in {None, Some("cleaned")} : ret' = result_path
    /\ files' = cleanup_temp_files(files)
    /\ pc' = "idle"
    /\ chunks' = <<>>
    /\ chunk_index' = 0
    /\ profanity_segments' = <<>>
    /\ call' = [op |-> "process_video"]
    /\ UNCHANGED <<settingsVars, threads, training_segments, trainerVars,
                   audio_len, ap_chunk_duration, detectorVars, input>>

NextFiles ==
    \/ ConfigureChunking
    \/ CreateTrainingSegments
    \/ StartRun
    \/ SkipLowQualityWindow
    \/ ProcessWindow
    \/ ReturnSegments
    \/ FinishProcessVideo

SpecFiles == InitFiles /\ [][NextFiles]_vars

\* C30: the files of the training segments are not protected from a run
\* of the pipeline: when process_video has completed, no file is left at
\* the segment_path of any training segment created before, so a training
\* on those segments finds no file holding the annotated audio.
C30_ProcessVideoRemovesTrainingSegmentFiles ==
    call.op = "process_video"
    => \A k \in 1..Len(training_segments) :
          /\ ~FileExists(files, training_segments[k].segment_path)
          /\ ~HoldsAnnotatedAudio(files, training_segments[k])

\* three training segments were created, process_video has completed with
\* a cleaned video, and the working directory holds none of their files
C30_Witness ==
    /\ call.op = "process_video"
    /\ ret = Some("cleaned")
    /\ Len(training_segments) = 3
    /\ training_segments[3].segment_path = <<"temp_chunk_", 2>>
    /\ \A k \in 1..3 : ~FileExists(files, training_segments[k].segment_path)

============================================================================
